---- MODULE Spec2Model ----
(***************************************************************************)
(* Model of mcp_math_servers: the planner/router                          *)
(* (src/src/mcp_math_servers/client/planner.py, specification Spec), the   *)
(* autonomous reasoner (servers/autonomous_reasoner.py, SpecReasoner) and  *)
(* the arithmetic servers (servers/data_provider.py, prompt_helper.py,     *)
(* capability_discovery.py, SpecServers).                                  *)
(*                                                                         *)
(* One call to MCPPlanner.run is a coroutine with three suspension points  *)
(* (first Gateway round, tool.run, summary Gateway round).  Each action    *)
(* below is the code that runs between two suspension points.  Gateway     *)
(* texts are sequences of symbols: single characters and whole JSON        *)
(* documents, so that the fenced-code-block stripping of _parse_decision   *)
(* is computed character by character.                                     *)
(***************************************************************************)
EXTENDS Integers, Sequences, FiniteSets, TLC

VARIABLES
    planner,     \* the MCPPlanner object: _tools, _manifest, _model, _timeout
    calls,       \* number of calls to run that have returned or raised
    pc,          \* position of the running call to run
    user_input,  \* argument of the running call
    requests,    \* Gateway requests sent by the running call, in order
    replies,     \* Gateway replies received by the running call, in order
    parsed,      \* outcome of the latest _parse_decision of the running call
    decision,    \* local `decision` of run (first round)
    toolLog,     \* invocations of tool.run by the running call, with results
    payload,     \* local `payload` of run
    outcome,     \* what the running call returned or raised
    solve,       \* the running call to solve_math_problem of the reasoner
    solved,      \* what that call returned
    tool_call,   \* the running tool call on one of the arithmetic servers
    tool_response, \* what that tool call returned or raised
    blueprints,  \* _SERVER_BLUEPRINTS of the servers package
    index,       \* _BLUEPRINT_INDEX of the servers package
    lookup,      \* the latest call to get_blueprint and what it gave
    shell,       \* the chat session of _async_main: start-up and REPL loop
    turns        \* the locals of interleaved calls to run, by turn

plannerVars == <<planner, calls, pc, user_input, requests, replies, parsed,
                 decision, toolLog, payload, outcome>>
reasonerVars == <<solve, solved>>
serverVars == <<tool_call, tool_response>>
indexVars == <<blueprints, index, lookup>>

vars == <<planner, calls, pc, user_input, requests, replies, parsed,
          decision, toolLog, payload, outcome, solve, solved, tool_call,
          tool_response, blueprints, index, lookup, shell, turns>>

\* Number of successive calls to run on the same planner.
MaxCalls == 2

DefaultTimeout == 45

--------------------------------------------------------------------------
\* JSON values, as Python sees them after json.loads.

JNull == [t |-> "null", v |-> ""]
JStr(s) == [t |-> "str", v |-> s]
JNum(s) == [t |-> "num", v |-> s]
JList(s) == [t |-> "list", v |-> s]
JObj(s) == [t |-> "obj", v |-> s]
\* A list of MCP content blocks (ToolResult.content): Python objects.
Blocks(s) == [t |-> "blocks", v |-> s]

\* Python truthiness: None, "", 0, [] and {} are falsy.
Truthy(j) ==
    CASE j.t = "null" -> FALSE
      [] j.t = "num" -> j.v # "0"
      [] OTHER -> j.v # ""

\* Lists and dicts are unhashable: `x in dict` raises TypeError for them.
Hashable(j) == j.t \notin {"list", "obj", "blocks"}

\* json.dumps accepts what json.loads produces, not arbitrary objects.
Serializable(j) == j.t # "blocks" \/ j.v = ""

--------------------------------------------------------------------------
\* JSON documents and Gateway texts.

Doc(a, m, tn, ar) ==
    [kind |-> "object", action |-> a, message |-> m, tool_name |-> tn,
     arguments |-> ar]
\* A JSON document that is valid JSON but not an object (an array).
ArrayDoc ==
    [kind |-> "array", action |-> JNull, message |-> JNull,
     tool_name |-> JNull, arguments |-> JNull]
NoDoc ==
    [kind |-> "none", action |-> JNull, message |-> JNull,
     tool_name |-> JNull, arguments |-> JNull]

Ch(c) == [k |-> "ch", c |-> c, d |-> NoDoc]
DocSym(d) == [k |-> "doc", c |-> "", d |-> d]

Whitespace == {Ch("space"), Ch("newline")}
Backtick == Ch("backtick")
Fence == <<Backtick, Backtick, Backtick>>
JsonTag == <<Ch("j"), Ch("s"), Ch("o"), Ch("n")>>

RECURSIVE LStrip(_, _)
LStrip(text, chars) ==
    IF text # <<>> /\ Head(text) \in chars THEN LStrip(Tail(text), chars)
    ELSE text

RECURSIVE RStrip(_, _)
RStrip(text, chars) ==
    IF text # <<>> /\ text[Len(text)] \in chars
    THEN RStrip(SubSeq(text, 1, Len(text) - 1), chars)
    ELSE text

\* str.strip(chars)
Strip(text, chars) == RStrip(LStrip(text, chars), chars)

\* str.startswith(prefix)
StartsWith(text, prefix) ==
    /\ Len(text) >= Len(prefix)
    /\ SubSeq(text, 1, Len(prefix)) = prefix

\* json.loads: optional whitespace around exactly one JSON document.
json_loads(text) ==
    LET t == Strip(text, Whitespace)
    IN IF Len(t) = 1 /\ t[1].k = "doc"
       THEN [ok |-> TRUE, data |-> t[1].d]
       ELSE [ok |-> FALSE, data |-> NoDoc]

--------------------------------------------------------------------------
\* Errors, decisions and results.

Err(type, msg, text) == [type |-> type, msg |-> msg, text |-> text]
NoError == Err("none", "", <<>>)

\* class PlannerError(RuntimeError); `text` is the Gateway text quoted in
\* the message, when the message quotes one.
PlannerError(msg) == Err("PlannerError", msg, <<>>)

\* dataclass PlannerDecision
PlannerDecision(a, m, tn, ar, raw) ==
    [action |-> a, message |-> m, tool_name |-> tn, arguments |-> ar,
     raw_response |-> raw]
NoDecision == PlannerDecision(JNull, JNull, JNull, JNull, <<>>)

\* dataclass PlannerResult; the field defaults are those of the dataclass.
PlannerResult(m, tn, ar, tr, raw) ==
    [message |-> m, tool_name |-> tn, arguments |-> ar, tool_result |-> tr,
     raw_response |-> raw]
NoResult == PlannerResult(JStr(""), JNull, JNull, JNull, <<>>)

Returned(r) == [kind |-> "result", result |-> r, error |-> NoError]
Raised(e) == [kind |-> "error", result |-> NoResult, error |-> e]
Pending == [kind |-> "none", result |-> NoResult, error |-> NoError]

--------------------------------------------------------------------------
\* MCPPlanner._parse_decision

\* sanitize that strips the backticks and keeps the language tag.
sanitize_keeping_tag(content) ==
    LET sanitized == Strip(content, Whitespace)
    IN IF StartsWith(sanitized, Fence)
       THEN Strip(sanitized, {Backtick})
       ELSE sanitized

\* The fenced-code-block stripping: content.strip(), then, when the text
\* starts with three backticks, strip("`") and drop a leading "json".
sanitize(content) ==
    LET sanitized == Strip(content, Whitespace)
    IN IF StartsWith(sanitized, Fence)
       THEN LET unfenced == Strip(sanitized, {Backtick})
            IN IF StartsWith(unfenced, JsonTag)
               THEN SubSeq(unfenced, 5, Len(unfenced))
               ELSE unfenced
       ELSE sanitized

\* parse_decision without the raw text in the error message.
parse_decision_no_text(content) ==
    LET loaded == json_loads(sanitize(content))
    IN IF ~loaded.ok
       THEN [err |-> PlannerError("not_valid_json"), decision |-> NoDecision]
       ELSE IF loaded.data.kind # "object"
       THEN [err |-> Err("AttributeError", "no_attribute_get", <<>>),
             decision |-> NoDecision]
       ELSE [err |-> NoError,
             decision |-> PlannerDecision(loaded.data.action,
                              loaded.data.message, loaded.data.tool_name,
                              loaded.data.arguments, content)]

\* json.JSONDecodeError becomes PlannerError("Planner response was not
\* valid JSON: {content}"); data.get on a non-dict raises AttributeError,
\* which is not caught.
parse_decision(content) ==
    LET loaded == json_loads(sanitize(content))
    IN IF ~loaded.ok
       THEN [err |-> Err("PlannerError", "not_valid_json", content),
             decision |-> NoDecision]
       ELSE IF loaded.data.kind # "object"
       THEN [err |-> Err("AttributeError", "no_attribute_get", <<>>),
             decision |-> NoDecision]
       ELSE [err |-> NoError,
             decision |-> PlannerDecision(loaded.data.action,
                              loaded.data.message, loaded.data.tool_name,
                              loaded.data.arguments, content)]

NotParsed == [err |-> NoError, decision |-> NoDecision]

--------------------------------------------------------------------------
\* MCPPlanner._complete, _extract_content, _normalize_content

TextReply(text) == [kind |-> "text", text |-> text]
TimeoutReply == [kind |-> "timeout", text |-> <<>>]
FailureReply == [kind |-> "failure", text |-> <<>>]
NoMessageReply == [kind |-> "no_message", text |-> <<>>]

\* A str content is returned stripped.
normalize_content(text) == Strip(text, Whitespace)

\* PlannerError when the choice has no message or the content is empty.
extract_content(reply) ==
    IF reply.kind = "no_message"
    THEN [err |-> PlannerError("no_message"), content |-> <<>>]
    ELSE LET content == normalize_content(reply.text)
         IN IF content = <<>>
            THEN [err |-> PlannerError("empty_content"), content |-> <<>>]
            ELSE [err |-> NoError, content |-> content]

\* complete swallowing a timeout or transport failure as an empty text.
complete_swallowing(reply) ==
    IF reply.kind \in {"timeout", "failure"}
    THEN [err |-> NoError, content |-> <<>>]
    ELSE LET got == extract_content(reply)
         IN IF got.err # NoError
            THEN [err |-> PlannerError("planner_failed"), content |-> <<>>]
            ELSE got

\* One awaited chat completion under asyncio.wait_for: a timeout and any
\* other exception (also the PlannerError of _extract_content) leave as a
\* PlannerError; nothing is sent again.
complete(reply) ==
    IF reply.kind = "timeout"
    THEN [err |-> PlannerError("request_timed_out"), content |-> <<>>]
    ELSE IF reply.kind = "failure"
    THEN [err |-> PlannerError("planner_failed"), content |-> <<>>]
    ELSE LET got == extract_content(reply)
         IN IF got.err # NoError
            THEN [err |-> PlannerError("planner_failed"), content |-> <<>>]
            ELSE got

--------------------------------------------------------------------------
\* The tool registry handed to MCPPlanner.__init__ and the tools' results.

ToolNames == {"math_add", "math_divide"}
ToolRegistry ==
    [n \in ToolNames |-> [description |-> "d", parameters |-> "p"]]

\* One manifest line per registered tool: name, description, parameters.
format_manifest(tools) ==
    {<<n, tools[n].description, tools[n].parameters>> : n \in DOMAIN tools}

\* What `await tool.run(arguments)` can do: raise, or return a ToolResult
\* with or without structured_content.
ToolResult(raised, sc, c) ==
    [raised |-> raised, structured_content |-> sc, content |-> c]
NoToolResult == ToolResult(FALSE, JNull, JNull)
ToolOutcomes ==
    {ToolResult(TRUE, JNull, JNull),
     ToolResult(FALSE, JObj("result"), Blocks("text")),
     ToolResult(FALSE, JNull, Blocks("")),
     ToolResult(FALSE, JNull, Blocks("text"))}

\* payload = structured_content when it is not None, else content.
payload_of(tool_result) ==
    IF tool_result.structured_content # JNull
    THEN tool_result.structured_content
    ELSE tool_result.content

--------------------------------------------------------------------------
\* The Gateway requests of MCPPlanner._decide and _summarize_with_tool.

decide_request(manifest, u) ==
    [round |-> "decide", manifest |-> manifest, user_input |-> u,
     tool_name |-> JNull, arguments |-> JNull, result |-> JNull]

summarize_request(manifest, u, tool_name, arguments, result) ==
    [round |-> "summarize", manifest |-> manifest, user_input |-> u,
     tool_name |-> tool_name, arguments |-> arguments, result |-> result]

--------------------------------------------------------------------------
\* MCPPlanner.run, from the first decision to the tool invocation.

Step(step, out) == [step |-> step, outcome |-> out]

\* `tool_name not in self._tools` for a hashable tool_name.
in_tools(tool_name, tools) ==
    tool_name.t = "str" /\ tool_name.v \in DOMAIN tools

\* run_decision without the test of the respond message.
run_decision_unchecked_message(d, tools) ==
    IF d.action = JStr("respond")
    THEN Step("return", Returned(PlannerResult(d.message, JNull, JNull,
                                     JNull, d.raw_response)))
    ELSE IF d.action = JStr("call_tool")
    THEN IF ~Truthy(d.tool_name) \/ d.arguments = JNull
         THEN Step("raise", Raised(PlannerError("no_name_or_arguments")))
         ELSE IF ~Hashable(d.tool_name)
         THEN Step("raise", Raised(Err("TypeError", "unhashable_type", <<>>)))
         ELSE IF ~in_tools(d.tool_name, tools)
         THEN Step("raise", Raised(PlannerError("unknown_tool")))
         ELSE Step("invoke", Pending)
    ELSE Step("raise", Raised(PlannerError("unknown_action")))

run_decision(d, tools) ==
    IF d.action = JStr("respond")
    THEN IF ~Truthy(d.message)
         THEN Step("raise", Raised(PlannerError("respond_without_message")))
         ELSE Step("return", Returned(PlannerResult(d.message, JNull, JNull,
                                          JNull, d.raw_response)))
    ELSE IF d.action = JStr("call_tool")
    THEN IF ~Truthy(d.tool_name) \/ d.arguments = JNull
         THEN Step("raise", Raised(PlannerError("no_name_or_arguments")))
         ELSE IF ~Hashable(d.tool_name)
         THEN Step("raise", Raised(Err("TypeError", "unhashable_type", <<>>)))
         ELSE IF ~in_tools(d.tool_name, tools)
         THEN Step("raise", Raised(PlannerError("unknown_tool")))
         ELSE Step("invoke", Pending)
    ELSE Step("raise", Raised(PlannerError("unknown_action")))

\* summarize_with_tool checking the message only: a second call_tool
\* decision that carries a message passes as the final answer.
summarize_any_action(d, first, tool_payload) ==
    IF ~Truthy(d.message)
    THEN Raised(PlannerError("no_final_response"))
    ELSE Returned(PlannerResult(d.message, first.tool_name, first.arguments,
                                tool_payload, d.raw_response))

\* summarize_with_tool handing back the raw text of the first decision.
summarize_first_raw(d, first, tool_payload) ==
    IF d.action # JStr("respond") \/ ~Truthy(d.message)
    THEN Raised(PlannerError("no_final_response"))
    ELSE Returned(PlannerResult(d.message, first.tool_name, first.arguments,
                                tool_payload, first.raw_response))

\* summarize_with_tool leaving tool_result out of the result.
summarize_without_payload(d, first, tool_payload) ==
    IF d.action # JStr("respond") \/ ~Truthy(d.message)
    THEN Raised(PlannerError("no_final_response"))
    ELSE Returned(PlannerResult(d.message, first.tool_name, first.arguments,
                                JNull, d.raw_response))

\* MCPPlanner._summarize_with_tool after its Gateway round, and the
\* PlannerResult run builds from it.
summarize_with_tool(d, first, tool_payload) ==
    IF d.action # JStr("respond") \/ ~Truthy(d.message)
    THEN Raised(PlannerError("no_final_response"))
    ELSE Returned(PlannerResult(d.message, first.tool_name, first.arguments,
                                tool_payload, d.raw_response))

--------------------------------------------------------------------------
\* What the Gateway (a remote language model) may answer.

Messages == {JNull, JStr(""), JStr("m1"), JStr("m2"), JNum("0")}
CallNames ==
    {JNull, JStr(""), JStr("math_add"), JStr("math_divide"),
     JStr("ghost_tool"), JNum("7"), JList("x")}
CallArguments == {JNull, JObj(""), JObj("a=9,b=6"), JList("9,6")}

RespondDocs ==
    {Doc(JStr("respond"), m, JNull, JNull) : m \in Messages}
      \cup {Doc(JStr("respond"), m, JStr("math_add"), JObj("")) :
               m \in {JNull, JStr("m1")}}
CallDocs ==
    {Doc(JStr("call_tool"), m, tn, ar) :
        m \in {JNull, JStr("m1")}, tn \in CallNames, ar \in CallArguments}
OtherDocs ==
    {Doc(a, m, JNull, JNull) :
        a \in {JNull, JStr("search")}, m \in {JNull, JStr("m1")}}
ObjectDocs == RespondDocs \cup CallDocs \cup OtherDocs
Docs == ObjectDocs \cup {ArrayDoc}

\* The language tags a fenced block may carry: none, json, and two others.
LanguageTags ==
    {<<>>, JsonTag, <<Ch("x")>>, JsonTag \o <<Ch("c")>>}
Separators == {<<>>, <<Ch("newline")>>}

Fenced(tag, sep, d) == Fence \o tag \o sep \o <<DocSym(d)>> \o sep \o Fence

\* The documents that also arrive inside a fence or after prose.
FencedDocs ==
    {Doc(JStr("respond"), JStr("m2"), JNull, JNull),
     Doc(JStr("respond"), JNull, JNull, JNull),
     Doc(JStr("call_tool"), JNull, JStr("math_add"), JObj("a=9,b=6")),
     Doc(JStr("call_tool"), JNull, JStr("ghost_tool"), JObj("")),
     ArrayDoc}

GatewayTexts ==
    {<<DocSym(d)>> : d \in Docs}
      \cup {Fenced(tag, sep, d) :
               tag \in LanguageTags, sep \in Separators, d \in FencedDocs}
      \cup {<<Ch("x"), Ch("space"), DocSym(d)>> : d \in FencedDocs}
      \cup {<<Ch("space"), DocSym(d), Ch("newline")>> : d \in FencedDocs}
      \cup {<<Ch("x")>>, Fence, <<Ch("space")>>, <<>>}

GatewayReplies ==
    {TimeoutReply, FailureReply, NoMessageReply}
      \cup {TextReply(t) : t \in GatewayTexts}

UserInputs == {"what is 9 times 6?", "hello"}

--------------------------------------------------------------------------
\* The autonomous reasoner
\* (src/src/mcp_math_servers/servers/autonomous_reasoner.py).
\* Python values handled by the reasoner.  A str holds a text.

PyNone == [t |-> "none", v |-> <<>>]
\* What dict.get finds for a key the dict does not hold.
PyAbsent == [t |-> "absent", v |-> <<>>]
PyStr(text) == [t |-> "str", v |-> text]
\* A number, by its digits.
PyNum(digits) == [t |-> "num", v |-> digits]
PyList(items) == [t |-> "list", v |-> items]
\* A dict, by its keys.
PyDict(keys) == [t |-> "dict", v |-> keys]

\* A literal piece of text of the source, and the characters of a text.
Lit(s) == [k |-> "lit", s |-> s]
Chars(s) == [i \in 1..Len(s) |-> Ch(s[i])]

PyTruthy(x) ==
    CASE x.t \in {"none", "absent"} -> FALSE
      [] x.t = "num" -> x.v # <<Ch("0")>>
      [] OTHER -> x.v # <<>>

\* str(x): a str is itself, anything else is rendered.
Repr(x) == [k |-> "repr", x |-> x]
str(x) == IF x.t = "str" THEN x ELSE PyStr(<<Repr(x)>>)

\* Python floats, as exact fractions in lowest terms, and float("inf").
RECURSIVE GCD(_, _)
GCD(a, b) == IF b = 0 THEN a ELSE GCD(b, a % b)

Abs(n) == IF n < 0 THEN -n ELSE n

Float(n, d) ==
    LET g == GCD(Abs(n), Abs(d))
        s == IF d < 0 THEN -1 ELSE 1
    IN [k |-> "float", inf |-> FALSE, num |-> s * (n \div g),
        den |-> s * (d \div g)]
Inf == [k |-> "float", inf |-> TRUE, num |-> 1, den |-> 0]

\* What an operation of the table does: a value, or an exception.
Value(x) == [raised |-> FALSE, error |-> "", value |-> x]
Raises(type) == [raised |-> TRUE, error |-> type, value |-> Inf]

Add(a, b) == Value(Float(a.num * b.den + b.num * a.den, a.den * b.den))
Subtract(a, b) == Value(Float(a.num * b.den - b.num * a.den, a.den * b.den))
Multiply(a, b) == Value(Float(a.num * b.num, a.den * b.den))
\* Divide without the guard of the table: Python's float division.
DivideUnguarded(a, b) ==
    IF b.num # 0 THEN Value(Float(a.num * b.den, a.den * b.num))
    ELSE Raises("ZeroDivisionError")
\* a / b if b != 0 else float("inf")
Divide(a, b) ==
    IF b.num # 0 THEN Value(Float(a.num * b.den, a.den * b.num))
    ELSE Value(Inf)

Apply(op, a, b) ==
    CASE op = "+" -> Add(a, b)
      [] op = "-" -> Subtract(a, b)
      [] op = "*" -> Multiply(a, b)
      [] op = "/" -> Divide(a, b)

Keyword(word, op) == [keyword |-> word, op |-> op]

\* The keyword table, in declaration order (a dict keeps insertion order).
operation_map ==
    <<Keyword(<<"a", "d", "d">>, "+"),
      Keyword(<<"p", "l", "u", "s">>, "+"),
      Keyword(<<"s", "u", "m">>, "+"),
      Keyword(<<"s", "u", "b", "t", "r", "a", "c", "t">>, "-"),
      Keyword(<<"m", "i", "n", "u", "s">>, "-"),
      Keyword(<<"d", "i", "f", "f", "e", "r", "e", "n", "c", "e">>, "-"),
      Keyword(<<"m", "u", "l", "t", "i", "p", "l", "y">>, "*"),
      Keyword(<<"t", "i", "m", "e", "s">>, "*"),
      Keyword(<<"p", "r", "o", "d", "u", "c", "t">>, "*"),
      Keyword(<<"d", "i", "v", "i", "d", "e">>, "/"),
      Keyword(<<"q", "u", "o", "t", "i", "e", "n", "t">>, "/")>>

\* re.findall(r"-?\d+(?:\.\d+)?", problem), left to right, greedy.
DigitValue ==
    [c \in {"0", "1", "2", "3", "4", "5", "6", "7", "8", "9"} |->
        CASE c = "0" -> 0 [] c = "1" -> 1 [] c = "2" -> 2 [] c = "3" -> 3
          [] c = "4" -> 4 [] c = "5" -> 5 [] c = "6" -> 6 [] c = "7" -> 7
          [] c = "8" -> 8 [] c = "9" -> 9]

IsDigit(sym) == sym.k = "ch" /\ sym.c \in DOMAIN DigitValue

\* The index after the longest run of digits of text that starts at i.
RECURSIVE DigitsEnd(_, _)
DigitsEnd(text, i) ==
    IF i <= Len(text) /\ IsDigit(text[i]) THEN DigitsEnd(text, i + 1) ELSE i

\* The index after the match of the pattern at i; i when none starts there.
MatchEnd(text, i) ==
    LET s == IF text[i] = Ch("-") THEN i + 1 ELSE i
        e == DigitsEnd(text, s)
        f == IF e <= Len(text) /\ text[e] = Ch(".")
             THEN DigitsEnd(text, e + 1) ELSE e
    IN IF e = s THEN i
       ELSE IF f > e + 1 THEN f ELSE e

RECURSIVE findall(_, _)
findall(text, i) ==
    IF i > Len(text) THEN <<>>
    ELSE LET e == MatchEnd(text, i)
         IN IF e = i THEN findall(text, i + 1)
            ELSE <<SubSeq(text, i, e - 1)>> \o findall(text, e)

\* The number written by a run of digits, and ten to the power n.
RECURSIVE DigitsNumber(_)
DigitsNumber(digits) ==
    IF digits = <<>> THEN 0
    ELSE 10 * DigitsNumber(SubSeq(digits, 1, Len(digits) - 1))
           + DigitValue[digits[Len(digits)].c]

RECURSIVE PowerOfTen(_)
PowerOfTen(n) == IF n = 0 THEN 1 ELSE 10 * PowerOfTen(n - 1)

\* float(value) of a matched literal.
float(literal) ==
    LET negative == literal[1] = Ch("-")
        body == IF negative THEN Tail(literal) ELSE literal
        whole == SubSeq(body, 1, DigitsEnd(body, 1) - 1)
        fraction == SubSeq(body, Len(whole) + 2, Len(body))
        n == DigitsNumber(whole) * PowerOfTen(Len(fraction))
               + DigitsNumber(fraction)
    IN Float(IF negative THEN -n ELSE n, PowerOfTen(Len(fraction)))

\* str.lower, on the letters of the problems.
lower(text) ==
    [i \in 1..Len(text) |->
        CASE text[i] = Ch("A") -> Ch("a")
          [] text[i] = Ch("D") -> Ch("d")
          [] text[i] = Ch("T") -> Ch("t")
          [] text[i] = Ch("I") -> Ch("i")
          [] text[i] = Ch("M") -> Ch("m")
          [] text[i] = Ch("E") -> Ch("e")
          [] text[i] = Ch("S") -> Ch("s")
          [] OTHER -> text[i]]

\* `keyword in lowered`: substring search.
Contains(text, word) ==
    \E i \in 1..(Len(text) - Len(word) + 1) :
        SubSeq(text, i, i + Len(word) - 1) = word

\* Matching with the entries in the opposite order: the last keyword wins.
MatchingLast(lowered) ==
    LET found == SelectSeq(operation_map,
                     LAMBDA e : Contains(lowered, Chars(e.keyword)))
    IN [i \in 1..Len(found) |-> found[Len(found) + 1 - i]]

\* The entries of the table whose keyword occurs in the text, in table order.
Matching(lowered) ==
    SelectSeq(operation_map, LAMBDA e : Contains(lowered, Chars(e.keyword)))

NoAnswer == Lit("Unable to determine answer.")

\* What a reasoning function hands to solve_math_problem, or its exception.
Payload(steps, final, model, source) ==
    [err |-> NoError, reasoning_steps |-> steps, final_answer |-> final,
     model |-> model, source |-> source]
NoPayload(e) ==
    [err |-> e, reasoning_steps |-> PyNone, final_answer |-> PyNone,
     model |-> "", source |-> ""]

fallback_reasoner(problem) ==
    LET numbers == [i \in 1..Len(findall(problem, 1)) |->
                       float(findall(problem, 1)[i])]
        lowered == lower(problem)
        found == Len(numbers) >= 2 /\ Matching(lowered) # <<>>
        applied == IF found
                   THEN Apply(Matching(lowered)[1].op, numbers[1], numbers[2])
                   ELSE Value(Inf)
        operation == IF found THEN Chars(Matching(lowered)[1].keyword)
                     ELSE <<Lit("analysis")>>
        final_answer == IF found THEN applied.value ELSE NoAnswer
        steps ==
            <<PyStr(<<Lit("Fallback reasoner engaged due to missing OpenAI credentials.")>>),
              PyStr(<<Lit("Identified operation '")>> \o operation
                      \o <<Lit("' using heuristic parsing.")>>),
              PyStr(<<Lit("Computed result: "), final_answer>>)>>
    IN IF applied.raised
       THEN NoPayload(Err(applied.error, "division by zero", <<>>))
       ELSE Payload(PyList(steps), PyStr(<<final_answer>>),
                    "heuristic-fallback", "fallback")

\* What the Gateway may do with the chat completion request of the reasoner.
ChatRaises(type) == [kind |-> "raises", error |-> type, content |-> PyNone]
NoChoices == [kind |-> "no_choices", error |-> "", content |-> PyNone]
ChatResponse(content) == [kind |-> "response", error |-> "", content |-> content]

\* A JSON object as the reasoner reads it, and JSON that is not an object.
ReasonerDoc(steps, final) ==
    [kind |-> "object", reasoning_steps |-> steps, final_answer |-> final]
ScalarDoc(kind) ==
    [kind |-> kind, reasoning_steps |-> PyAbsent, final_answer |-> PyAbsent]

\* x[-1]
Last(x) ==
    CASE x.t = "list" -> IF x.v = <<>> THEN Raises("IndexError")
                         ELSE Value(x.v[Len(x.v)])
      [] x.t = "str" -> IF x.v = <<>> THEN Raises("IndexError")
                        ELSE Value(PyStr(<<x.v[Len(x.v)]>>))
      [] x.t = "dict" -> Raises("KeyError")
      [] OTHER -> Raises("TypeError")

\* parsed.get(key, default) for the value held under key.
Get(held, default) == IF held = PyAbsent THEN default ELSE held

\* chat_completion letting the JSONDecodeError of json.loads through.
chat_completion_strict(reply, model) ==
    IF reply.kind = "raises" THEN NoPayload(Err(reply.error, "gateway", <<>>))
    ELSE IF reply.kind = "no_choices"
    THEN NoPayload(Err("IndexError", "choices", <<>>))
    ELSE
    LET raw_content == IF PyTruthy(reply.content) THEN reply.content.v ELSE <<>>
        loaded == json_loads(raw_content)
        got == Get(loaded.data.reasoning_steps, PyNone)
        reasoning_steps ==
            IF PyTruthy(got) THEN got
            ELSE PyList(<<Get(loaded.data.final_answer,
                              PyStr(<<Lit("Unknown")>>))>>)
        last == Last(reasoning_steps)
    IN IF ~loaded.ok THEN NoPayload(Err("JSONDecodeError", "loads", <<>>))
       ELSE IF loaded.data.kind # "object"
       THEN NoPayload(Err("AttributeError", "get", <<>>))
       ELSE IF last.raised THEN NoPayload(Err(last.error, "subscript", <<>>))
       ELSE Payload(reasoning_steps, Get(loaded.data.final_answer, last.value),
                    model, "openai")

\* _chat_completion from the point where the awaited request ends.
chat_completion(reply, model) ==
    IF reply.kind = "raises" THEN NoPayload(Err(reply.error, "gateway", <<>>))
    ELSE IF reply.kind = "no_choices"
    THEN NoPayload(Err("IndexError", "choices", <<>>))
    ELSE
    LET raw_content == IF PyTruthy(reply.content) THEN reply.content.v ELSE <<>>
        loaded == json_loads(raw_content)
        parsed_doc ==
            IF loaded.ok THEN loaded.data
            ELSE ReasonerDoc(PyList(<<PyStr(Strip(raw_content, Whitespace))>>),
                             PyStr(Strip(raw_content, Whitespace)))
        got == Get(parsed_doc.reasoning_steps, PyNone)
        reasoning_steps ==
            IF PyTruthy(got) THEN got
            ELSE PyList(<<Get(parsed_doc.final_answer, PyStr(<<Lit("Unknown")>>))>>)
        last == Last(reasoning_steps)
    IN IF parsed_doc.kind # "object"
       THEN NoPayload(Err("AttributeError", "get", <<>>))
       ELSE IF last.raised THEN NoPayload(Err(last.error, "subscript", <<>>))
       ELSE Payload(reasoning_steps, Get(parsed_doc.final_answer, last.value),
                    model, "openai")

\* _build_client: whether the library and a non-empty credential are there.
Environments == {"no_library", "no_key", "empty_key", "key"}
build_client(env) ==
    IF env = "key" THEN [err |-> NoError, client |-> "AsyncOpenAI"]
    ELSE [err |-> Err("RuntimeError", env, <<>>), client |-> ""]

chat_request(model, problem) ==
    [model |-> model,
     messages |-> <<[role |-> "system", content |-> <<Lit("_SYSTEM_PROMPT")>>],
                    [role |-> "user",
                     content |-> <<Lit("Solve this math problem and respond with JSON only."),
                                   Ch("newline"), Lit("Problem: ")>> \o problem]>>]

\* AutonomousResult(...).serialize() of solve_math_problem.
AutonomousResult(problem, p) ==
    [problem |-> problem, reasoning_steps |-> p.reasoning_steps,
     final_answer |-> str(p.final_answer), model |-> p.model,
     source |-> p.source]

\* What solve_math_problem returns or raises for the payload of
\* _run_reasoning.
solve_math_problem(problem, p) ==
    IF p.err # NoError THEN Raised(p.err)
    ELSE Returned(AutonomousResult(problem, p))

NoSolve ==
    [pc |-> "idle", problem |-> <<>>, model |-> "", env |-> "",
     request |-> <<>>, reply |-> <<>>, via |-> ""]
NoSolved == Pending

--------------------------------------------------------------------------
\* The arithmetic servers (data_provider.py, prompt_helper.py,
\* capability_discovery.py).

NoCall == [server |-> "", tool |-> "", arguments |-> <<>>]
NoResponse == Pending

\* Keyword arguments in call order: the inputs dict of a tool.
Input(name, value) == [name |-> name, value |-> value]
\* inputs[name]
InputOf(inputs, name) ==
    LET i == CHOOSE i \in DOMAIN inputs : inputs[i].name = name
    IN inputs[i].value

\* data_provider._compute with the operands of the subtraction exchanged.
data_compute_exchanged(operation, inputs) ==
    CASE operation = "addition" ->
            Add(InputOf(inputs, "augend"), InputOf(inputs, "addend"))
      [] operation = "subtraction" ->
            Subtract(InputOf(inputs, "subtrahend"), InputOf(inputs, "minuend"))
      [] operation = "multiplication" ->
            Multiply(InputOf(inputs, "multiplicand"),
                     InputOf(inputs, "multiplier"))
      [] operation = "division" ->
            IF InputOf(inputs, "divisor").num = 0 THEN Raises("ValueError")
            ELSE DivideUnguarded(InputOf(inputs, "dividend"),
                                 InputOf(inputs, "divisor"))
      [] OTHER -> Raises("ValueError")

\* data_provider._compute
data_compute(operation, inputs) ==
    CASE operation = "addition" ->
            Add(InputOf(inputs, "augend"), InputOf(inputs, "addend"))
      [] operation = "subtraction" ->
            Subtract(InputOf(inputs, "minuend"), InputOf(inputs, "subtrahend"))
      [] operation = "multiplication" ->
            Multiply(InputOf(inputs, "multiplicand"),
                     InputOf(inputs, "multiplier"))
      [] operation = "division" ->
            IF InputOf(inputs, "divisor").num = 0 THEN Raises("ValueError")
            ELSE DivideUnguarded(InputOf(inputs, "dividend"),
                                 InputOf(inputs, "divisor"))
      [] OTHER -> Raises("ValueError")

\* MathResult(...).serialize()
MathResult(operation, inputs, result) ==
    [operation |-> operation, inputs |-> inputs, result |-> result]

\* data_provider._response
response(operation, inputs) ==
    LET computed == data_compute(operation, inputs)
    IN IF computed.raised
       THEN Raised(Err(computed.error, "Divisor must be non-zero.", <<>>))
       ELSE Returned(MathResult(operation, inputs, computed.value))

\* prompt_helper._compute dividing as the fallback reasoner does.
prompt_compute_unchecked(operation, inputs) ==
    CASE operation = "addition" ->
            Add(InputOf(inputs, "augend"), InputOf(inputs, "addend"))
      [] operation = "subtraction" ->
            Subtract(InputOf(inputs, "minuend"), InputOf(inputs, "subtrahend"))
      [] operation = "multiplication" ->
            Multiply(InputOf(inputs, "multiplicand"),
                     InputOf(inputs, "multiplier"))
      [] operation = "division" ->
            Divide(InputOf(inputs, "dividend"), InputOf(inputs, "divisor"))
      [] OTHER -> Raises("ValueError")

\* prompt_helper._compute testing the dividend instead of the divisor.
prompt_compute_guarding_dividend(operation, inputs) ==
    CASE operation = "addition" ->
            Add(InputOf(inputs, "augend"), InputOf(inputs, "addend"))
      [] operation = "subtraction" ->
            Subtract(InputOf(inputs, "minuend"), InputOf(inputs, "subtrahend"))
      [] operation = "multiplication" ->
            Multiply(InputOf(inputs, "multiplicand"),
                     InputOf(inputs, "multiplier"))
      [] operation = "division" ->
            IF InputOf(inputs, "dividend").num = 0 THEN Raises("ValueError")
            ELSE DivideUnguarded(InputOf(inputs, "dividend"),
                                 InputOf(inputs, "divisor"))
      [] OTHER -> Raises("ValueError")

\* prompt_helper._compute
prompt_compute(operation, inputs) ==
    CASE operation = "addition" ->
            Add(InputOf(inputs, "augend"), InputOf(inputs, "addend"))
      [] operation = "subtraction" ->
            Subtract(InputOf(inputs, "minuend"), InputOf(inputs, "subtrahend"))
      [] operation = "multiplication" ->
            Multiply(InputOf(inputs, "multiplicand"),
                     InputOf(inputs, "multiplier"))
      [] operation = "division" ->
            IF InputOf(inputs, "divisor").num = 0 THEN Raises("ValueError")
            ELSE DivideUnguarded(InputOf(inputs, "dividend"),
                                 InputOf(inputs, "divisor"))
      [] OTHER -> Raises("ValueError")

\* _build_prompt leaving the inputs out of the prompt.
build_prompt_without_inputs(operation, inputs, answer) ==
    <<Lit("The "), Lit(operation), Lit(" result is "), answer,
      Lit(". Incorporate this numeric value into your next reasoning step. If the user asked a follow-up, restate the interpreted question before responding.")>>

\* prompt_helper._build_prompt: an f-string of the operation, the answer and
\* the inputs dict.
build_prompt(operation, inputs, answer) ==
    <<Lit("The "), Lit(operation), Lit(" result is "), answer,
      Lit(". Inputs: "), Repr(inputs),
      Lit(". Incorporate this numeric value into your next reasoning step. If the user asked a follow-up, restate the interpreted question before responding.")>>

\* PromptedResult(...).serialize()
PromptedResult(operation, inputs, result, next_prompt) ==
    [operation |-> operation, inputs |-> inputs, result |-> result,
     next_prompt |-> next_prompt]

\* prompt_helper._structure
structure(operation, inputs) ==
    LET computed == prompt_compute(operation, inputs)
    IN IF computed.raised
       THEN Raised(Err(computed.error, "Divisor must be non-zero.", <<>>))
       ELSE Returned(PromptedResult(operation, inputs, computed.value,
                         build_prompt(operation, inputs, computed.value)))

\* _raise_capability_only returning a number instead of raising.
raise_capability_only_executing(tool_name) ==
    Returned(Float(0, 1))

\* capability_discovery._raise_capability_only with _EXECUTION_REDIRECT
raise_capability_only(tool_name) ==
    Raised(Err("DisabledError", "_EXECUTION_REDIRECT",
               <<Lit("This server only exposes tool metadata for educational purposes. Use the "),
                 Lit("math-data-provider"),
                 Lit(" server to actually execute '"), Lit(tool_name),
                 Lit("'.")>>))

\* The tools each server registers: the operation and the parameters of a
\* computing tool, the name a capability-only tool passes on.
Tool(operation, first, second) ==
    [operation |-> operation, first |-> first, second |-> second]
DataTools ==
    [tool \in {"math_add", "math_subtract", "math_multiply", "math_divide"} |->
        CASE tool = "math_add" -> Tool("addition", "augend", "addend")
          [] tool = "math_subtract" ->
                Tool("subtraction", "minuend", "subtrahend")
          [] tool = "math_multiply" ->
                Tool("multiplication", "multiplicand", "multiplier")
          [] tool = "math_divide" -> Tool("division", "dividend", "divisor")]
PromptTools ==
    [tool \in {"math_add_with_prompt", "math_subtract_with_prompt",
                "math_multiply_with_prompt", "math_divide_with_prompt"} |->
        CASE tool = "math_add_with_prompt" ->
                Tool("addition", "augend", "addend")
          [] tool = "math_subtract_with_prompt" ->
                Tool("subtraction", "minuend", "subtrahend")
          [] tool = "math_multiply_with_prompt" ->
                Tool("multiplication", "multiplicand", "multiplier")
          [] tool = "math_divide_with_prompt" ->
                Tool("division", "dividend", "divisor")]
CapabilityTools ==
    [tool \in {"math_add", "math_subtract", "math_multiply", "math_divide"} |->
        CASE tool = "math_add" -> "math_add"
          [] tool = "math_subtract" -> "math_subtract"
          [] tool = "math_multiply" -> "math_multiply"
          [] tool = "math_divide" -> "math_divide"]

\* The numbers the tools are called with.
Numbers ==
    {Float(0, 1), Float(1, 1), Float(2, 1), Float(3, 1), Float(12, 1),
     Float(-2, 1), Float(1, 2), Float(-5, 4)}

--------------------------------------------------------------------------
\* The blueprint index of the servers package
\* (src/src/mcp_math_servers/servers/__init__.py).

\* A key: a word and how its letters are cased.
Key(word, casing) == [word |-> word, casing |-> casing]
Casings == {"lower", "upper", "mixed"}
\* str.lower: the same word, all letters in lower case.
key_lower(key) == Key(key.word, "lower")

ServerBlueprint(name, category, aliases) ==
    [name |-> name, category |-> category, aliases |-> aliases]

\* _SERVER_BLUEPRINTS as the package declares it.
SERVER_BLUEPRINTS ==
    <<ServerBlueprint(Key("math-capability-registry", "lower"),
                      "Capability Discovery / Tool Registration",
                      <<Key("capability", "lower"), Key("discovery", "lower")>>),
      ServerBlueprint(Key("math-data-provider", "lower"),
                      "Data-Providing / Context-Enriching",
                      <<Key("data", "lower"), Key("provider", "lower")>>),
      ServerBlueprint(Key("math-prompt-helper", "lower"),
                      "Prompt-Returning / Co-Reasoning",
                      <<Key("prompt", "lower"), Key("co-reasoning", "lower")>>),
      ServerBlueprint(Key("math-autonomous-reasoner", "lower"),
                      "Autonomous / Server-Side Reasoning",
                      <<Key("autonomous", "lower"), Key("reasoner", "lower")>>)>>

\* The (alias, blueprint) pairs in the order the nested loops visit them.
RECURSIVE AliasPairs(_, _)
AliasPairs(bs, i) ==
    IF i > Len(bs) THEN <<>>
    ELSE [j \in 1..Len(bs[i].aliases) |->
             [alias |-> bs[i].aliases[j], blueprint |-> bs[i]]]
           \o AliasPairs(bs, i + 1)

\* {blueprint.name.lower(): blueprint for ...}: for equal keys the later
\* blueprint stays.
NameIndex(bs) ==
    [k \in {key_lower(bs[i].name) : i \in DOMAIN bs} |->
        LET last == CHOOSE i \in DOMAIN bs :
                        /\ key_lower(bs[i].name) = k
                        /\ \A j \in DOMAIN bs :
                              key_lower(bs[j].name) = k => j <= i
        IN bs[last]]

\* d[key] = value
Assigned(d, key, value) ==
    [k \in DOMAIN d \cup {key} |-> IF k = key THEN value ELSE d[k]]

\* The alias loop storing every alias, whatever the index holds.
RECURSIVE RegisterOverwriting(_, _)
RegisterOverwriting(d, pairs) ==
    IF pairs = <<>> THEN d
    ELSE RegisterOverwriting(
             Assigned(d, key_lower(pairs[1].alias), pairs[1].blueprint),
             Tail(pairs))

\* The alias loop: _BLUEPRINT_INDEX.setdefault(alias.lower(), blueprint)
RECURSIVE Register(_, _)
Register(d, pairs) ==
    IF pairs = <<>> THEN d
    ELSE Register(
             IF key_lower(pairs[1].alias) \in DOMAIN d THEN d
             ELSE Assigned(d, key_lower(pairs[1].alias), pairs[1].blueprint),
             Tail(pairs))

\* _BLUEPRINT_INDEX after the module has run.
BLUEPRINT_INDEX(bs) == Register(NameIndex(bs), AliasPairs(bs, 1))

\* get_blueprint
get_blueprint(d, key) ==
    LET normalized == key_lower(key)
    IN IF normalized \notin DOMAIN d
       THEN Raised(Err("KeyError", "Unknown server", <<key, DOMAIN d>>))
       ELSE Returned(d[normalized])

NotImported == [k \in {} |-> <<>>]
NoLookup == [called |-> FALSE, key |-> Key("", "lower"), outcome |-> Pending]

--------------------------------------------------------------------------
\* The chat shell (src/src/mcp_math_servers/client/chat.py) and the
\* planner's availability check (client/planner.py).

\* is_planner_available: the library is there and the credential is not empty.
is_planner_available(env) == env = "key"

\* MCPPlanner.__init__ in the environment env.
MCPPlanner(env) ==
    IF ~is_planner_available(env)
    THEN [made |-> "error",
          error |-> PlannerError("OpenAI client is unavailable.")]
    ELSE [made |-> "MCPPlanner", error |-> NoError]
NotConstructed == [made |-> "none", error |-> NoError]

\* A console line: its words, the casing of its letters, and whether white
\* space surrounds it.
Line(words, casing, padded) ==
    [words |-> words, casing |-> casing, padded |-> padded]
\* str.strip and str.lower on a line.
line_strip(line) == [line EXCEPT !.padded = FALSE]
line_lower(line) == [line EXCEPT !.casing = "lower"]

Command(word) == Line(<<word>>, "lower", FALSE)
EXIT_COMMANDS == {Command("exit"), Command("quit"), Command(":q")}
HELP_COMMANDS == {Command("help"), Command("?"), Command(":help")}
MANIFEST_COMMANDS == {Command("tools"), Command("manifest")}

\* What handler.handle did: it returned after printing `report`, or raised.
Handled(report) == [kind |-> "returned", report |-> report, error |-> NoError]
HandleRaised(e) == [kind |-> "raised", report |-> "", error |-> e]
NotHandled == [kind |-> "none", report |-> "", error |-> NoError]

\* float(token) of _parse, for the tokens of the lines.
IsFloat(token) == token \in {"0", "1", "2", "3", "12"}
TokenFloat(token) ==
    CASE token = "0" -> Float(0, 1)
      [] token = "1" -> Float(1, 1)
      [] token = "2" -> Float(2, 1)
      [] token = "3" -> Float(3, 1)
      [] token = "12" -> Float(12, 1)

\* _BinaryOpMixin._parse: the operation and the two numbers, or a message.
Parsed(op, a, b) == [ok |-> TRUE, report |-> "", op |-> op, a |-> a, b |-> b]
NotParsedLine(report) ==
    [ok |-> FALSE, report |-> report, op |-> "", a |-> Inf, b |-> Inf]
parse(text) ==
    LET parts == text.words
    IN IF Len(parts) # 3
       THEN NotParsedLine("Format: <operation> <number> <number>")
       ELSE IF parts[1] \notin {"add", "subtract", "multiply", "divide"}
       THEN NotParsedLine("Unknown operation")
       ELSE IF ~IsFloat(parts[2]) \/ ~IsFloat(parts[3])
       THEN NotParsedLine("Numbers must be valid floats.")
       ELSE Parsed(parts[1], TokenFloat(parts[2]), TokenFloat(parts[3]))

\* OPERATIONS of DataHandler and PromptHandler: the tool of an operation.
DataOperations(op) ==
    CASE op = "add" -> "math_add"
      [] op = "subtract" -> "math_subtract"
      [] op = "multiply" -> "math_multiply"
      [] op = "divide" -> "math_divide"
PromptOperations(op) ==
    CASE op = "add" -> "math_add_with_prompt"
      [] op = "subtract" -> "math_subtract_with_prompt"
      [] op = "multiply" -> "math_multiply_with_prompt"
      [] op = "divide" -> "math_divide_with_prompt"

\* DataHandler.handle: an exception of the tool leaves handle.
DataHandler_handle(text) ==
    LET p == parse(text)
        tool == DataTools[DataOperations(p.op)]
        got == response(tool.operation,
                        <<Input(tool.first, p.a), Input(tool.second, p.b)>>)
    IN IF ~p.ok THEN Handled(p.report)
       ELSE IF got.kind = "error" THEN HandleRaised(got.error)
       ELSE Handled("result")

\* PromptHandler.handle
PromptHandler_handle(text) ==
    LET p == parse(text)
        tool == PromptTools[PromptOperations(p.op)]
        got == structure(tool.operation,
                         <<Input(tool.first, p.a), Input(tool.second, p.b)>>)
    IN IF ~p.ok THEN Handled(p.report)
       ELSE IF got.kind = "error" THEN HandleRaised(got.error)
       ELSE Handled("result and suggested prompt")

\* CapabilityHandler.handle and AutonomousHandler.handle
CapabilityHandler_handle(text) ==
    Handled("Capability registry is read-only.")
AutonomousHandler_handle(text) == Handled("Final answer")

\* What awaiting planner.run may give the PlannerHandler: a result, a
\* PlannerError, or one of the other exceptions run lets through.
RunOutcomes ==
    {Returned(PlannerResult(JStr("m1"), JNull, JNull, JNull, <<>>)),
     Returned(PlannerResult(JStr("m2"), JStr("math_add"), JObj("a=9,b=6"),
                            JObj("result"), <<>>)),
     Raised(PlannerError("request_timed_out")),
     Raised(PlannerError("unknown_tool")),
     Raised(Err("TypeError", "unhashable_type", <<>>)),
     Raised(Err("AttributeError", "no_attribute_get", <<>>)),
     Raised(Err("ToolError", "tool_raised", <<>>))}

\* PlannerHandler.handle: only PlannerError is caught.
PlannerHandler_handle(ran) ==
    IF ran.kind = "error"
    THEN IF ran.error.type = "PlannerError" THEN Handled("[planner] error")
         ELSE HandleRaised(ran.error)
    ELSE Handled("[planner] Completed plan")

\* _should_use_planner for args.planner in {None, True, False}.
PlannerFlags == {"None", "True", "False"}
should_use_planner(flag, blueprint) ==
    IF flag # "None" THEN flag = "True"
    ELSE blueprint.name # Key("math-autonomous-reasoner", "lower")

\* _make_handler
make_handler(blueprint, made_planner) ==
    IF made_planner # "None" THEN "PlannerHandler"
    ELSE IF blueprint.name = Key("math-capability-registry", "lower")
    THEN "CapabilityHandler"
    ELSE IF blueprint.name = Key("math-data-provider", "lower")
    THEN "DataHandler"
    ELSE IF blueprint.name = Key("math-prompt-helper", "lower")
    THEN "PromptHandler"
    ELSE "AutonomousHandler"

\* The start-up of _async_main up to the REPL loop: the planner and the
\* handler of the session, or the exception that ends it.
Session(made_planner, handler) ==
    [failed |-> FALSE, error |-> NoError, planner |-> made_planner,
     handler |-> handler]
NoSession(e) ==
    [failed |-> TRUE, error |-> e, planner |-> "None", handler |-> ""]
\* A start-up that needs its planner: the PlannerError of MCPPlanner ends it.
start_up_requiring_planner(server, flag, env) ==
    LET found == get_blueprint(BLUEPRINT_INDEX(SERVER_BLUEPRINTS), server)
        blueprint == found.result
        made == MCPPlanner(env)
    IN IF found.kind = "error" THEN NoSession(found.error)
       ELSE IF ~should_use_planner(flag, blueprint)
       THEN Session("None", make_handler(blueprint, "None"))
       ELSE IF made.made = "error" THEN NoSession(made.error)
       ELSE Session("MCPPlanner", make_handler(blueprint, "MCPPlanner"))

start_up(server, flag, env) ==
    LET found == get_blueprint(BLUEPRINT_INDEX(SERVER_BLUEPRINTS), server)
        blueprint == found.result
        made == MCPPlanner(env)
        made_planner == IF should_use_planner(flag, blueprint)
                           /\ is_planner_available(env)
                           /\ made.made = "MCPPlanner"
                        THEN "MCPPlanner" ELSE "None"
    IN IF found.kind = "error" THEN NoSession(found.error)
       ELSE Session(made_planner, make_handler(blueprint, made_planner))

NoLine == Line(<<>>, "lower", FALSE)
NotStarted ==
    [pc |-> "not_started", server |-> Key("", "lower"), flag |-> "None",
     env |-> "", planner |-> "None", handler |-> "", error |-> NoError,
     direct |-> NotConstructed, line |-> NoLine, passed |-> 0,
     handled |-> NotHandled]

--------------------------------------------------------------------------
\* Several calls to run on one planner, interleaved at their awaits.  Each
\* call has its own locals (user_input, decision, tool_result, payload, the
\* messages of its requests); self._tools and self._manifest are shared.

Turns == {"t1", "t2"}

\* The locals of one call to run.
Turn(state, u, rq, rp, d, tl, pl, out) ==
    [pc |-> state, user_input |-> u, requests |-> rq, replies |-> rp,
     decision |-> d, toolLog |-> tl, payload |-> pl, outcome |-> out]
NotRunning == Turn("idle", "", <<>>, <<>>, NoDecision, <<>>, JNull, Pending)
NoTurns == [t \in Turns |-> NotRunning]

\* What the Gateway and the tools answer in the interleaved turns.
TurnReplies ==
    {TimeoutReply,
     TextReply(<<DocSym(Doc(JStr("respond"), JStr("m1"), JNull, JNull))>>),
     TextReply(<<DocSym(Doc(JStr("call_tool"), JNull, JStr("math_add"),
                            JObj("a=9,b=6")))>>),
     TextReply(<<DocSym(Doc(JStr("call_tool"), JStr("m1"),
                            JStr("math_divide"), JObj("")))>>)}
TurnToolOutcomes ==
    {ToolResult(TRUE, JNull, JNull),
     ToolResult(FALSE, JObj("result"), Blocks("text")),
     ToolResult(FALSE, JNull, Blocks(""))}

\* run up to its first await.
started(self, u) ==
    Turn("awaiting_decision", u, <<decide_request(self.manifest, u)>>, <<>>,
         NoDecision, <<>>, JNull, Pending)

\* From the first reply to the await of tool.run, or to the end of run.
decided(self, turn, reply) ==
    LET got == complete(reply)
        p == parse_decision(got.content)
        step == run_decision(p.decision, self.tools)
        heard == [turn EXCEPT !.replies = Append(turn.replies, reply)]
    IN IF got.err # NoError
       THEN [heard EXCEPT !.outcome = Raised(got.err), !.pc = "done"]
       ELSE IF p.err # NoError
       THEN [heard EXCEPT !.outcome = Raised(p.err), !.pc = "done"]
       ELSE IF step.step = "invoke"
       THEN [heard EXCEPT
               !.decision = p.decision,
               !.toolLog = <<[tool_name |-> p.decision.tool_name.v,
                              arguments |-> p.decision.arguments,
                              returned |-> FALSE,
                              result |-> NoToolResult]>>,
               !.pc = "calling_tool"]
       ELSE [heard EXCEPT !.decision = p.decision,
                          !.outcome = step.outcome, !.pc = "done"]

\* From the end of tool.run to the await of the summary, or to the end of
\* run; acting is the decision whose tool_name and arguments run passes on.
tool_returned(self, turn, acting, res) ==
    LET logged == [turn EXCEPT !.toolLog[1].returned = TRUE,
                               !.toolLog[1].result = res]
    IN IF res.raised
       THEN [logged EXCEPT
               !.outcome = Raised(Err("ToolError", "tool_raised", <<>>)),
               !.pc = "done"]
       ELSE IF ~Serializable(payload_of(res))
       THEN [logged EXCEPT
               !.payload = payload_of(res),
               !.outcome =
                   Raised(Err("TypeError", "not_json_serializable", <<>>)),
               !.pc = "done"]
       ELSE [logged EXCEPT
               !.payload = payload_of(res),
               !.requests =
                   Append(turn.requests,
                          summarize_request(self.manifest, turn.user_input,
                              acting.tool_name, acting.arguments,
                              payload_of(res))),
               !.pc = "awaiting_summary"]

\* From the second reply to the end of run.
summarized(turn, acting, reply) ==
    LET got == complete(reply)
        p == parse_decision(got.content)
        heard == [turn EXCEPT !.replies = Append(turn.replies, reply),
                              !.pc = "done"]
    IN IF got.err # NoError THEN [heard EXCEPT !.outcome = Raised(got.err)]
       ELSE IF p.err # NoError THEN [heard EXCEPT !.outcome = Raised(p.err)]
       ELSE [heard EXCEPT
               !.outcome = summarize_with_tool(p.decision, acting,
                                               turn.payload)]

--------------------------------------------------------------------------
\* The state machine.

Init ==
    /\ planner = [tools |-> ToolRegistry,
                  manifest |-> format_manifest(ToolRegistry),
                  model |-> "gpt-4.1-mini",
                  timeout |-> DefaultTimeout]
    /\ calls = 0
    /\ pc = "idle"
    /\ user_input = ""
    /\ requests = <<>>
    /\ replies = <<>>
    /\ parsed = NotParsed
    /\ decision = NoDecision
    /\ toolLog = <<>>
    /\ payload = JNull
    /\ outcome = Pending
    /\ solve = NoSolve
    /\ solved = NoSolved
    /\ tool_call = NoCall
    /\ tool_response = NoResponse
    /\ blueprints = <<>>
    /\ index = NotImported
    /\ lookup = NoLookup
    /\ shell = NotStarted
    /\ turns = NoTurns

\* run is called: _decide sends the first Gateway request and awaits it.
RunStart(u) ==
    /\ pc = "idle"
    /\ calls < MaxCalls
    /\ pc' = "awaiting_decision"
    /\ user_input' = u
    /\ requests' = <<decide_request(planner.manifest, u)>>
    /\ replies' = <<>>
    /\ parsed' = NotParsed
    /\ decision' = NoDecision
    /\ toolLog' = <<>>
    /\ payload' = JNull
    /\ outcome' = Pending
    /\ UNCHANGED <<planner, calls>>
    /\ UNCHANGED <<reasonerVars, serverVars, indexVars, shell, turns>>

\* The first Gateway round ends: _complete, _parse_decision, then run up to
\* `await tool.run(decision.arguments)` or to its return or raise.
DecisionArrives(reply) ==
    /\ pc = "awaiting_decision"
    /\ replies' = Append(replies, reply)
    /\ LET got == complete(reply)
           p == parse_decision(got.content)
           step == run_decision(p.decision, planner.tools)
       IN IF got.err # NoError
          THEN /\ outcome' = Raised(got.err)
               /\ pc' = "done"
               /\ UNCHANGED <<parsed, decision, toolLog>>
          ELSE IF p.err # NoError
          THEN /\ parsed' = p
               /\ outcome' = Raised(p.err)
               /\ pc' = "done"
               /\ UNCHANGED <<decision, toolLog>>
          ELSE /\ parsed' = p
               /\ decision' = p.decision
               /\ IF step.step = "invoke"
                  THEN /\ toolLog' = <<[tool_name |-> p.decision.tool_name.v,
                                        arguments |-> p.decision.arguments,
                                        returned |-> FALSE,
                                        result |-> NoToolResult]>>
                       /\ pc' = "calling_tool"
                       /\ UNCHANGED outcome
                  ELSE /\ outcome' = step.outcome
                       /\ pc' = "done"
                       /\ UNCHANGED toolLog
    /\ UNCHANGED <<planner, calls, user_input, requests, payload>>
    /\ UNCHANGED <<reasonerVars, serverVars, indexVars, shell, turns>>

\* ToolReturns sending the summary request whatever tool.run did.
ToolReturnsAlwaysSummarizing(res) ==
    /\ pc = "calling_tool"
    /\ toolLog' = [toolLog EXCEPT ![1].returned = TRUE, ![1].result = res]
    /\ payload' = payload_of(res)
    /\ requests' =
          Append(requests,
                 summarize_request(planner.manifest, user_input,
                     decision.tool_name, decision.arguments, payload_of(res)))
    /\ pc' = "awaiting_summary"
    /\ UNCHANGED outcome
    /\ UNCHANGED <<planner, calls, user_input, replies, parsed, decision>>
    /\ UNCHANGED <<reasonerVars, serverVars, indexVars, shell, turns>>

\* tool.run ends: on a result run picks the payload and
\* _summarize_with_tool serialises it and sends the second request.
ToolReturns(res) ==
    /\ pc = "calling_tool"
    /\ toolLog' = [toolLog EXCEPT ![1].returned = TRUE, ![1].result = res]
    /\ IF res.raised
       THEN /\ outcome' = Raised(Err("ToolError", "tool_raised", <<>>))
            /\ pc' = "done"
            /\ UNCHANGED <<payload, requests>>
       ELSE /\ payload' = payload_of(res)
            /\ IF ~Serializable(payload_of(res))
               THEN /\ outcome' =
                          Raised(Err("TypeError", "not_json_serializable", <<>>))
                    /\ pc' = "done"
                    /\ UNCHANGED requests
               ELSE /\ requests' =
                          Append(requests,
                                 summarize_request(planner.manifest, user_input,
                                     decision.tool_name, decision.arguments,
                                     payload_of(res)))
                    /\ pc' = "awaiting_summary"
                    /\ UNCHANGED outcome
    /\ UNCHANGED <<planner, calls, user_input, replies, parsed, decision>>
    /\ UNCHANGED <<reasonerVars, serverVars, indexVars, shell, turns>>

\* SummaryArrives asking the Gateway again when the summary is unusable.
SummaryArrivesRetrying(reply) ==
    /\ pc = "awaiting_summary"
    /\ replies' = Append(replies, reply)
    /\ LET got == complete(reply)
           p == parse_decision(got.content)
           out == IF got.err # NoError THEN Raised(got.err)
                  ELSE IF p.err # NoError THEN Raised(p.err)
                  ELSE summarize_with_tool(p.decision, decision, payload)
       IN /\ parsed' = IF got.err # NoError THEN parsed ELSE p
          /\ IF out.kind = "error" /\ Len(requests) < 3
             THEN /\ requests' = Append(requests, requests[Len(requests)])
                  /\ pc' = "awaiting_summary"
                  /\ UNCHANGED outcome
             ELSE /\ outcome' = out
                  /\ pc' = "done"
                  /\ UNCHANGED requests
    /\ UNCHANGED <<planner, calls, user_input, decision, toolLog, payload>>
    /\ UNCHANGED <<reasonerVars, serverVars, indexVars, shell, turns>>

\* The summary round ends: _complete, _parse_decision, the check of
\* _summarize_with_tool, and run returns the combined result.
SummaryArrives(reply) ==
    /\ pc = "awaiting_summary"
    /\ replies' = Append(replies, reply)
    /\ LET got == complete(reply)
           p == parse_decision(got.content)
       IN IF got.err # NoError
          THEN /\ outcome' = Raised(got.err)
               /\ UNCHANGED parsed
          ELSE IF p.err # NoError
          THEN /\ parsed' = p
               /\ outcome' = Raised(p.err)
          ELSE /\ parsed' = p
               /\ outcome' = summarize_with_tool(p.decision, decision, payload)
    /\ pc' = "done"
    /\ UNCHANGED <<planner, calls, user_input, requests, decision, toolLog,
                   payload>>
    /\ UNCHANGED <<reasonerVars, serverVars, indexVars, shell, turns>>

\* RunEnds taking a tool whose turn failed out of the planner's registry.
RunEndsDroppingTool ==
    /\ pc = "done"
    /\ calls' = calls + 1
    /\ pc' = "idle"
    /\ user_input' = ""
    /\ requests' = <<>>
    /\ replies' = <<>>
    /\ parsed' = NotParsed
    /\ decision' = NoDecision
    /\ toolLog' = <<>>
    /\ payload' = JNull
    /\ outcome' = Pending
    /\ planner' =
          IF outcome.kind = "error" /\ toolLog # <<>>
          THEN [planner EXCEPT !.tools =
                   [n \in DOMAIN planner.tools \ {toolLog[1].tool_name} |->
                       planner.tools[n]]]
          ELSE planner
    /\ UNCHANGED <<reasonerVars, serverVars, indexVars, shell, turns>>

\* The caller has the result or the exception; the locals of run are gone.
RunEnds ==
    /\ pc = "done"
    /\ calls' = calls + 1
    /\ pc' = "idle"
    /\ user_input' = ""
    /\ requests' = <<>>
    /\ replies' = <<>>
    /\ parsed' = NotParsed
    /\ decision' = NoDecision
    /\ toolLog' = <<>>
    /\ payload' = JNull
    /\ outcome' = Pending
    /\ UNCHANGED planner
    /\ UNCHANGED <<reasonerVars, serverVars, indexVars, shell, turns>>

Next ==
    \/ \E u \in UserInputs : RunStart(u)
    \/ \E reply \in GatewayReplies : DecisionArrives(reply)
    \/ \E res \in ToolOutcomes : ToolReturns(res)
    \/ \E reply \in GatewayReplies : SummaryArrives(reply)
    \/ RunEnds

Spec == Init /\ [][Next]_vars

\* The awaits of run without the timer of asyncio.wait_for: nothing makes a
\* Gateway round end.
SpecUntimed ==
    Init /\ [][Next]_vars /\ WF_vars(\E res \in ToolOutcomes : ToolReturns(res))

\* The awaits of run never last forever: asyncio.wait_for ends a Gateway
\* round after planner.timeout when the Gateway has not answered, and the
\* tools of the registry are local computations that end.  The Gateway
\* itself promises nothing.
SpecLive ==
    /\ Init /\ [][Next]_vars
    /\ WF_vars(DecisionArrives(TimeoutReply))
    /\ WF_vars(SummaryArrives(TimeoutReply))
    /\ WF_vars(\E res \in ToolOutcomes : ToolReturns(res))

--------------------------------------------------------------------------
\* The reasoner's state machine: one call to solve_math_problem at a time.

Words ==
    {operation_map[i].keyword : i \in DOMAIN operation_map}
      \cup {<<>>, <<"t", "r", "i", "p", "l", "e">>, <<"A", "d", "d">>,
            <<"s", "o", "m", "e", "t", "i", "m", "e", "s">>}
SecondWords == {<<>>, <<"s", "u", "b", "t", "r", "a", "c", "t">>,
                <<"q", "u", "o", "t", "i", "e", "n", "t">>}
FirstLiterals == {<<>>, <<"4">>, <<"-", "1", ".", "5">>}
SecondLiterals == {<<>>, <<"5">>, <<"0">>, <<"-", "0", ".", "0">>}

Sentence(w1, n1, w2, n2) ==
    Chars(w1 \o <<"space">> \o n1 \o <<"space">> \o w2 \o <<"space">> \o n2)

Problems ==
    {Sentence(w1, n1, w2, n2) :
        w1 \in Words, n1 \in FirstLiterals, w2 \in SecondWords,
        n2 \in SecondLiterals}
      \cup {Chars(<<"1", "0", "-", "5", "space", "m", "i", "n", "u", "s">>),
            Chars(<<"3", "space", "p", "l", "u", "s", "space", "4", "space",
                    "p", "l", "u", "s", "space", "5">>),
            Chars(<<"1", ".", "2", ".", "3", "space", "a", "d", "d">>),
            Chars(<<"4", ".", "space", "t", "i", "m", "e", "s", "space", "-",
                    "space", "7">>),
            <<>>}

Models == {"gpt-4.1-mini", "gpt-4o"}

StepValues ==
    {PyAbsent, PyNone, PyList(<<>>), PyStr(<<>>), PyNum(Chars(<<"0">>)),
     PyList(<<PyStr(Chars(<<"9", "*", "6">>)), PyStr(Chars(<<"5", "4">>))>>),
     PyStr(Chars(<<"9", "*", "6">>)), PyNum(Chars(<<"3">>)), PyDict(Chars(<<"a">>))}
AnswerValues ==
    {PyAbsent, PyNone, PyStr(Chars(<<"5", "4">>)), PyNum(Chars(<<"5", "4">>))}

ReasonerDocs ==
    {ReasonerDoc(s, f) : s \in StepValues, f \in AnswerValues}
      \cup {ScalarDoc("array"), ScalarDoc("number"), ScalarDoc("string")}

Prose == Chars(<<"5", "4", "space", "o", "k">>)
\* The documents that also arrive inside a fence, in prose or in whitespace.
WrappedDocs ==
    {ReasonerDoc(PyList(<<PyStr(Chars(<<"9", "*", "6">>))>>),
                 PyStr(Chars(<<"5", "4">>))),
     ScalarDoc("array")}
ChatTexts ==
    {<<>>, <<Ch("space")>>, Prose, <<Ch("space")>> \o Prose \o <<Ch("newline")>>}
      \cup {<<DocSym(d)>> : d \in ReasonerDocs \cup WrappedDocs}
      \cup {<<Ch("newline"), DocSym(d), Ch("space")>> : d \in WrappedDocs}
      \cup {Fenced(JsonTag, <<Ch("newline")>>, d) : d \in WrappedDocs}
      \cup {<<DocSym(d)>> \o Prose : d \in WrappedDocs}

ChatReplies ==
    {ChatRaises("APIConnectionError"), ChatRaises("TimeoutError"), NoChoices,
     ChatResponse(PyNone)}
      \cup {ChatResponse(PyStr(t)) : t \in ChatTexts}

\* solve_math_problem is called: _build_client, then either the fallback
\* and the return, or the chat completion request is sent and awaited.
SolveStart(problem, model, env) ==
    /\ solve.pc = "idle"
    /\ IF build_client(env).err # NoError
       THEN /\ solve' = [solve EXCEPT !.pc = "done", !.problem = problem,
                                      !.model = model, !.env = env,
                                      !.via = "fallback"]
            /\ solved' = solve_math_problem(problem, fallback_reasoner(problem))
       ELSE /\ solve' = [solve EXCEPT !.pc = "awaiting_gateway",
                                      !.problem = problem, !.model = model,
                                      !.env = env,
                                      !.request = <<chat_request(model, problem)>>]
            /\ UNCHANGED solved
    /\ UNCHANGED <<plannerVars, serverVars, indexVars, shell, turns>>

\* CompletionArrives letting the exception of the Gateway call through.
CompletionArrivesPropagating(reply) ==
    /\ solve.pc = "awaiting_gateway"
    /\ LET p == chat_completion(reply, solve.model)
       IN /\ solve' = [solve EXCEPT !.pc = "done", !.reply = <<reply>>,
                                    !.via = "gateway"]
          /\ solved' = solve_math_problem(solve.problem, p)
    /\ UNCHANGED <<plannerVars, serverVars, indexVars, shell, turns>>

\* The chat completion ends: _chat_completion up to its return, or the
\* fallback when it raised, and solve_math_problem returns.
CompletionArrives(reply) ==
    /\ solve.pc = "awaiting_gateway"
    /\ LET p == chat_completion(reply, solve.model)
       IN IF p.err # NoError
          THEN /\ solve' = [solve EXCEPT !.pc = "done", !.reply = <<reply>>,
                                         !.via = "fallback"]
               /\ solved' = solve_math_problem(solve.problem,
                                fallback_reasoner(solve.problem))
          ELSE /\ solve' = [solve EXCEPT !.pc = "done", !.reply = <<reply>>,
                                         !.via = "gateway"]
               /\ solved' = solve_math_problem(solve.problem, p)
    /\ UNCHANGED <<plannerVars, serverVars, indexVars, shell, turns>>

\* The caller has the result.
SolveEnds ==
    /\ solve.pc = "done"
    /\ solve' = NoSolve
    /\ solved' = NoSolved
    /\ UNCHANGED <<plannerVars, serverVars, indexVars, shell, turns>>

NextReasoner ==
    \/ \E problem \in Problems, model \in Models, env \in Environments :
          SolveStart(problem, model, env)
    \/ \E reply \in ChatReplies : CompletionArrives(reply)
    \/ SolveEnds

SpecReasoner == Init /\ [][NextReasoner]_vars

\* What the code guarantees about the awaits of solve_math_problem: the
\* caller takes the result.  _chat_completion awaits the Gateway call as it
\* is, under no timer, so nothing makes the completion arrive.
SpecReasonerLive ==
    Init /\ [][NextReasoner]_vars /\ WF_vars(SolveEnds)

--------------------------------------------------------------------------
\* The arithmetic servers' state machine: a tool function runs from its call
\* to its return or raise without suspending.

Called(server, tool, a, b) ==
    [server |-> server, tool |-> tool, arguments |-> <<a, b>>]

\* A tool of math-data-provider runs.
DataToolRuns(tool, a, b) ==
    /\ tool_call = NoCall
    /\ tool_call' = Called("math-data-provider", tool, a, b)
    /\ tool_response' =
          response(DataTools[tool].operation,
                   <<Input(DataTools[tool].first, a),
                     Input(DataTools[tool].second, b)>>)
    /\ UNCHANGED <<plannerVars, reasonerVars, indexVars, shell, turns>>

\* A tool of math-prompt-helper runs.
PromptToolRuns(tool, a, b) ==
    /\ tool_call = NoCall
    /\ tool_call' = Called("math-prompt-helper", tool, a, b)
    /\ tool_response' =
          structure(PromptTools[tool].operation,
                    <<Input(PromptTools[tool].first, a),
                      Input(PromptTools[tool].second, b)>>)
    /\ UNCHANGED <<plannerVars, reasonerVars, indexVars, shell, turns>>

\* A tool of math-capability-registry runs.
CapabilityToolRuns(tool, a, b) ==
    /\ tool_call = NoCall
    /\ tool_call' = Called("math-capability-registry", tool, a, b)
    /\ tool_response' = raise_capability_only(CapabilityTools[tool])
    /\ UNCHANGED <<plannerVars, reasonerVars, indexVars, shell, turns>>

\* The caller has the response.
ToolEnds ==
    /\ tool_call # NoCall
    /\ tool_call' = NoCall
    /\ tool_response' = NoResponse
    /\ UNCHANGED <<plannerVars, reasonerVars, indexVars, shell, turns>>

NextServers ==
    \/ \E tool \in DOMAIN DataTools, a \in Numbers, b \in Numbers :
          DataToolRuns(tool, a, b)
    \/ \E tool \in DOMAIN PromptTools, a \in Numbers, b \in Numbers :
          PromptToolRuns(tool, a, b)
    \/ \E tool \in DOMAIN CapabilityTools, a \in Numbers, b \in Numbers :
          CapabilityToolRuns(tool, a, b)
    \/ ToolEnds

SpecServers == Init /\ [][NextServers]_vars

--------------------------------------------------------------------------
\* The blueprint index's state machine: the package is imported once, then
\* get_blueprint is called.

\* Aliases a blueprint tuple may declare on top of the package's own: keys
\* that are already names or aliases, in any casing, and new ones.
ExtraAliases ==
    {Key(w, c) : w \in {"math-data-provider", "data", "reasoner", "extra"},
                 c \in Casings}

\* bs with one more alias at the end of the aliases of blueprint i.
WithAlias(bs, i, alias) ==
    [bs EXCEPT ![i].aliases = Append(bs[i].aliases, alias)]

BlueprintTuples ==
    {SERVER_BLUEPRINTS}
      \cup {WithAlias(SERVER_BLUEPRINTS, i, a) :
               i \in DOMAIN SERVER_BLUEPRINTS, a \in ExtraAliases}

LookupKeys ==
    {Key(w, c) :
        w \in {"math-capability-registry", "math-data-provider",
               "math-prompt-helper", "math-autonomous-reasoner", "capability",
               "discovery", "data", "provider", "prompt", "co-reasoning",
               "autonomous", "reasoner", "extra", "unknown", ""},
        c \in Casings}

\* The servers package is imported: lines 58 to 96 run.
ImportServers(bs) ==
    /\ blueprints = <<>>
    /\ blueprints' = bs
    /\ index' = BLUEPRINT_INDEX(bs)
    /\ UNCHANGED lookup
    /\ UNCHANGED <<plannerVars, reasonerVars, serverVars, shell, turns>>

\* get_blueprint(key) is called and returns or raises.
GetBlueprint(key) ==
    /\ blueprints # <<>>
    /\ lookup' = [called |-> TRUE, key |-> key,
                  outcome |-> get_blueprint(index, key)]
    /\ UNCHANGED <<blueprints, index>>
    /\ UNCHANGED <<plannerVars, reasonerVars, serverVars, shell, turns>>

NextBlueprints ==
    \/ \E bs \in BlueprintTuples : ImportServers(bs)
    \/ \E key \in LookupKeys : GetBlueprint(key)

SpecBlueprints == Init /\ [][NextBlueprints]_vars

--------------------------------------------------------------------------
\* The chat shell as a state machine: _async_main starts the session, then
\* the REPL loop reads a line, dispatches it and awaits the handler.

\* The --server values, the console lines and the outcomes explored.
ShellServers ==
    {Key("capability", "lower"), Key("data", "mixed"),
     Key("math-prompt-helper", "lower"), Key("autonomous", "lower"),
     Key("reasoner", "upper"), Key("unknown", "lower")}
LineWords ==
    {<<>>, <<"exit">>, <<"quit">>, <<":q">>, <<"help">>, <<"?">>,
     <<":help">>, <<"tools">>, <<"manifest">>, <<"add", "2", "3">>,
     <<"divide", "1", "0">>, <<"divide", "12", "3">>, <<"add", "2", "x">>,
     <<"power", "2", "3">>, <<"hello">>, <<"exit", "now">>}
HasLetters(words) == words \notin {<<>>, <<"?">>}
Lines ==
    {Line(w, c, p) : w \in LineWords, c \in {"lower", "mixed"},
                     p \in BOOLEAN} \
    {Line(w, "mixed", p) : w \in {v \in LineWords : ~HasLetters(v)},
                           p \in BOOLEAN}

\* _async_main up to the loop.
AsyncMainStarts(server, flag, env) ==
    /\ shell.pc = "not_started"
    /\ LET s == start_up(server, flag, env)
       IN shell' = [shell EXCEPT
                      !.pc = IF s.failed THEN "crashed" ELSE "reading",
                      !.server = server, !.flag = flag, !.env = env,
                      !.planner = s.planner, !.handler = s.handler,
                      !.error = s.error]
    /\ UNCHANGED <<plannerVars, reasonerVars, serverVars, indexVars, turns>>

\* MCPPlanner(...) called directly in the session's environment.
ConstructPlanner ==
    /\ shell.pc # "not_started"
    /\ shell.direct = NotConstructed
    /\ shell' = [shell EXCEPT !.direct = MCPPlanner(shell.env)]
    /\ UNCHANGED <<plannerVars, reasonerVars, serverVars, indexVars, turns>>

\* handler.handle(user_input) awaited to its end, for each handler class.
handle(handler, text, ran) ==
    CASE handler = "PlannerHandler" -> PlannerHandler_handle(ran)
      [] handler = "DataHandler" -> DataHandler_handle(text)
      [] handler = "PromptHandler" -> PromptHandler_handle(text)
      [] handler = "CapabilityHandler" -> CapabilityHandler_handle(text)
      [] handler = "AutonomousHandler" -> AutonomousHandler_handle(text)

\* A loop that compares the stripped line itself with the commands.
ReadLineCaseSensitive(line) ==
    /\ shell.pc = "reading"
    /\ LET text == line_strip(line)
           reserved == text \in EXIT_COMMANDS \cup HELP_COMMANDS
                                \cup MANIFEST_COMMANDS
       IN shell' = [shell EXCEPT
                      !.line = line, !.handled = NotHandled,
                      !.pc = IF text.words = <<>> THEN "reading"
                             ELSE IF text \in EXIT_COMMANDS THEN "exited"
                             ELSE IF reserved THEN "reading"
                             ELSE "handling",
                      !.passed = IF text.words = <<>> \/ reserved
                                 THEN 0 ELSE 1]
    /\ UNCHANGED <<plannerVars, reasonerVars, serverVars, indexVars, turns>>

\* One pass of the REPL loop that skips the handler: the line is empty or a
\* command. The handler-dispatching pass is ReadLine followed by HandleEnds.
ReadLine(line) ==
    /\ shell.pc = "reading"
    /\ LET text == line_strip(line)
           lowered == line_lower(text)
       IN shell' = [shell EXCEPT
                      !.line = line, !.handled = NotHandled,
                      !.pc = IF text.words = <<>> THEN "reading"
                             ELSE IF lowered \in EXIT_COMMANDS THEN "exited"
                             ELSE IF lowered \in HELP_COMMANDS THEN "reading"
                             ELSE IF lowered \in MANIFEST_COMMANDS
                             THEN "reading"
                             ELSE "handling",
                      !.passed = IF text.words = <<>>
                                    \/ lowered \in EXIT_COMMANDS
                                    \/ lowered \in HELP_COMMANDS
                                    \/ lowered \in MANIFEST_COMMANDS
                                 THEN 0 ELSE 1]
    /\ UNCHANGED <<plannerVars, reasonerVars, serverVars, indexVars, turns>>

\* The await of handler.handle ends: it returned and the loop reads on, or
\* it raised and the exception leaves the loop and _async_main.
HandleEnds(ran) ==
    /\ shell.pc = "handling"
    /\ LET h == handle(shell.handler, line_strip(shell.line), ran)
       IN shell' = [shell EXCEPT
                      !.handled = h,
                      !.pc = IF h.kind = "raised" THEN "crashed"
                             ELSE "reading",
                      !.error = h.error]
    /\ UNCHANGED <<plannerVars, reasonerVars, serverVars, indexVars, turns>>

\* EOFError or KeyboardInterrupt while reading.
EndOfInput ==
    /\ shell.pc = "reading"
    /\ shell' = [shell EXCEPT !.pc = "exited"]
    /\ UNCHANGED <<plannerVars, reasonerVars, serverVars, indexVars, turns>>

NextShell ==
    \/ \E server \in ShellServers, flag \in PlannerFlags,
          env \in Environments : AsyncMainStarts(server, flag, env)
    \/ ConstructPlanner
    \/ \E line \in Lines : ReadLine(line)
    \/ \E ran \in RunOutcomes : HandleEnds(ran)
    \/ EndOfInput

SpecShell == Init /\ [][NextShell]_vars

--------------------------------------------------------------------------
\* The interleaved turns' state machine: every turn advances from one await
\* to the next while the others are suspended.

TurnStarts(t, u) ==
    /\ turns[t].pc = "idle"
    /\ turns' = [turns EXCEPT ![t] = started(planner, u)]
    /\ UNCHANGED <<plannerVars, reasonerVars, serverVars, indexVars, shell>>

TurnDecisionArrives(t, reply) ==
    /\ turns[t].pc = "awaiting_decision"
    /\ turns' = [turns EXCEPT ![t] = decided(planner, turns[t], reply)]
    /\ UNCHANGED <<plannerVars, reasonerVars, serverVars, indexVars, shell>>

\* The decision of the turn that decided to call a tool most recently, as
\* if run kept it on the planner instead of in a local.
OtherTurn(t) == CHOOSE o \in Turns : o # t
LatestDecision(t) ==
    IF turns[OtherTurn(t)].toolLog # <<>>
    THEN turns[OtherTurn(t)].decision ELSE turns[t].decision
TurnToolReturnsSharing(t, res) ==
    /\ turns[t].pc = "calling_tool"
    /\ turns' = [turns EXCEPT ![t] =
                    tool_returned(planner, turns[t], LatestDecision(t), res)]
    /\ UNCHANGED <<plannerVars, reasonerVars, serverVars, indexVars, shell>>

TurnToolReturns(t, res) ==
    /\ turns[t].pc = "calling_tool"
    /\ turns' = [turns EXCEPT ![t] =
                    tool_returned(planner, turns[t], turns[t].decision, res)]
    /\ UNCHANGED <<plannerVars, reasonerVars, serverVars, indexVars, shell>>

TurnSummaryArrives(t, reply) ==
    /\ turns[t].pc = "awaiting_summary"
    /\ turns' = [turns EXCEPT ![t] =
                    summarized(turns[t], turns[t].decision, reply)]
    /\ UNCHANGED <<plannerVars, reasonerVars, serverVars, indexVars, shell>>

\* The caller of the turn has its result or exception.
TurnEnds(t) ==
    /\ turns[t].pc = "done"
    /\ turns' = [turns EXCEPT ![t] = NotRunning]
    /\ UNCHANGED <<plannerVars, reasonerVars, serverVars, indexVars, shell>>

NextConcurrent ==
    \/ \E t \in Turns, u \in UserInputs : TurnStarts(t, u)
    \/ \E t \in Turns, reply \in TurnReplies : TurnDecisionArrives(t, reply)
    \/ \E t \in Turns, res \in TurnToolOutcomes : TurnToolReturns(t, res)
    \/ \E t \in Turns, reply \in TurnReplies : TurnSummaryArrives(t, reply)
    \/ \E t \in Turns : TurnEnds(t)

SpecConcurrent == Init /\ [][NextConcurrent]_vars

--------------------------------------------------------------------------
\* Vocabulary of the properties.

\* The running call has ended (returned or raised).
Done == pc = "done"
Failed == outcome.kind = "error"
FailedWith(type) == Failed /\ outcome.error.type = type
ReturnedResult == outcome.kind = "result"

\* The first-round text was parsed into a decision, on which run has acted.
HasDecision == parsed.err = NoError /\ decision # NoDecision

\* The Gateway text handed to _parse_decision for the latest reply.
LastContent == normalize_content(replies[Len(replies)].text)
GotText == replies # <<>> /\ replies[Len(replies)].kind = "text"
                          /\ LastContent # <<>>

RegistryKey(j) == j.t = "str" /\ j.v \in DOMAIN planner.tools

--------------------------------------------------------------------------
\* C1 (as claimed): whenever the first-round decision has action call_tool
\* and names a tool_name that is not a key of the registry, run has failed
\* with PlannerError, no tool was invoked and no second Gateway request was
\* sent.
C1_ClosedWorldPlannerError ==
    (/\ HasDecision
     /\ decision.action = JStr("call_tool")
     /\ decision.tool_name # JNull
     /\ ~RegistryKey(decision.tool_name))
    => (/\ Done
        /\ FailedWith("PlannerError")
        /\ toolLog = <<>>
        /\ Len(requests) = 1)

\* C2: at most one tool invocation happens in a call to run, and once the
\* tool has been invoked, a summary-round decision that is not `respond`
\* with a non-empty message (a second call_tool, say) fails run with
\* PlannerError and invokes nothing.
C2_SingleCall ==
    /\ Len(toolLog) <= 1
    /\ (/\ Done
        /\ Len(replies) = 2
        /\ GotText
        /\ parsed.err = NoError
        /\ ~(parsed.decision.action = JStr("respond")
               /\ Truthy(parsed.decision.message)))
       => (/\ FailedWith("PlannerError")
           /\ outcome.error.msg = "no_final_response"
           /\ Len(toolLog) = 1
           /\ Len(requests) = 2)

\* A second call_tool decision, naming a registered tool with arguments,
\* has arrived in the summary round and the call has failed.
C2_Witness ==
    /\ Done
    /\ Len(replies) = 2
    /\ parsed.err = NoError
    /\ parsed.decision.action = JStr("call_tool")
    /\ RegistryKey(parsed.decision.tool_name)
    /\ parsed.decision.arguments.t = "obj"
    /\ Truthy(parsed.decision.message)
    /\ FailedWith("PlannerError")
    /\ Len(toolLog) = 1

\* C3: a call to run asks the Gateway at most twice: once when it ends
\* without having invoked a tool, and a second time only after the tool
\* invocation has returned; every reply answers a request already sent.
C3_AtMostTwoRequests ==
    /\ Len(requests) <= 2
    /\ Len(replies) <= Len(requests)
    /\ (pc # "idle" => Len(requests) >= 1)
    /\ (toolLog = <<>> => Len(requests) <= 1)
    /\ (Len(requests) = 2 =>
           /\ Len(toolLog) = 1
           /\ toolLog[1].returned
           /\ ~toolLog[1].result.raised)
    /\ (Done /\ ReturnedResult /\ outcome.result.tool_name = JNull
           => Len(requests) = 1)

\* Both rounds were used and the summary round failed to parse.
C3_Witness ==
    /\ Done
    /\ Len(requests) = 2
    /\ Len(replies) = 2
    /\ Failed

\* C4: a Gateway text (the non-empty text _complete returns) that is not
\* JSON after the fence stripping, in either round, fails run with the
\* malformed-response PlannerError, whose message quotes the text; in the
\* first round no tool is invoked and no second request is sent.
C4_MalformedResponse ==
    (/\ Done
     /\ GotText
     /\ ~json_loads(sanitize(LastContent)).ok)
    => (/\ outcome = Raised(Err("PlannerError", "not_valid_json", LastContent))
        /\ (Len(replies) = 1 => toolLog = <<>> /\ Len(requests) = 1))

\* A fenced block with a foreign language tag arrived in the summary round.
C4_Witness ==
    /\ Done
    /\ Len(replies) = 2
    /\ GotText
    /\ StartsWith(LastContent, Fence)
    /\ FailedWith("PlannerError")
    /\ outcome.error.msg = "not_valid_json"
    /\ outcome.error.text = LastContent

\* C5: when the first-round decision has action respond, run fails with
\* PlannerError if message is missing or empty (falsy, as `not message`
\* tests it) and otherwise returns a result with that message and no
\* tool_name, arguments or tool_result; no tool is invoked and no second
\* request is sent.
C5_Respond ==
    (HasDecision /\ decision.action = JStr("respond"))
    => (/\ Done
        /\ toolLog = <<>>
        /\ Len(requests) = 1
        /\ IF Truthy(decision.message)
           THEN /\ ReturnedResult
                /\ outcome.result.message = decision.message
                /\ outcome.result.tool_name = JNull
                /\ outcome.result.arguments = JNull
                /\ outcome.result.tool_result = JNull
           ELSE FailedWith("PlannerError"))

\* A respond decision that also carried a tool_name was answered with the
\* message alone.
C5_Witness ==
    /\ Done
    /\ HasDecision
    /\ decision.action = JStr("respond")
    /\ decision.tool_name = JStr("math_add")
    /\ ReturnedResult
    /\ outcome.result.message = JStr("m1")
    /\ outcome.result.tool_name = JNull

--------------------------------------------------------------------------
\* C6 (as claimed): whenever run has invoked a tool, the decision it acted
\* on has a non-empty tool_name that is a key of the registry and arguments
\* that are a non-null mapping; a call_tool decision with tool_name missing
\* or empty, or with arguments missing, has failed run with PlannerError
\* and nothing was invoked.
C6_InvokedDecisionWellFormed ==
    /\ toolLog # <<>> =>
          /\ decision.action = JStr("call_tool")
          /\ Truthy(decision.tool_name)
          /\ RegistryKey(decision.tool_name)
          /\ decision.arguments.t = "obj"
    /\ (/\ HasDecision
        /\ decision.action = JStr("call_tool")
        /\ (~Truthy(decision.tool_name) \/ decision.arguments = JNull))
       => (Done /\ FailedWith("PlannerError") /\ toolLog = <<>>)

\* C7: a Gateway failure (timeout or transport error) in either round ends
\* the call with an error carrying the cause: no PlannerResult is returned,
\* also after the tool has run, and no request follows the failed one.
C7_GatewayFailureIsHard ==
    \A i \in 1..Len(replies) :
        replies[i].kind \in {"timeout", "failure"}
        => (/\ Done
            /\ FailedWith("PlannerError")
            /\ outcome.error.msg \in {"request_timed_out", "planner_failed"}
            /\ ~ReturnedResult
            /\ i = Len(replies)
            /\ i = Len(requests))

\* The summary round timed out after the tool had returned its result.
C7_Witness ==
    /\ Done
    /\ Len(replies) = 2
    /\ replies[2].kind = "timeout"
    /\ Len(toolLog) = 1
    /\ toolLog[1].returned
    /\ Failed

\* C8: on the successful tool path the result carries the message of the
\* summary decision, the tool_name and arguments of the first decision,
\* the payload of the one invocation of that tool with those arguments
\* (structured content when present, else the content) and the raw text of
\* the summary decision.
C8_ToolPathResult ==
    (Done /\ ReturnedResult /\ toolLog # <<>>)
    => (/\ Len(toolLog) = 1
        /\ Len(replies) = 2
        /\ outcome.result.message = parsed.decision.message
        /\ parsed.decision.raw_response = LastContent
        /\ outcome.result.raw_response = LastContent
        /\ outcome.result.tool_name = decision.tool_name
        /\ outcome.result.arguments = decision.arguments
        /\ toolLog[1].tool_name = decision.tool_name.v
        /\ toolLog[1].arguments = decision.arguments
        /\ toolLog[1].returned
        /\ outcome.result.tool_result =
              (IF toolLog[1].result.structured_content # JNull
               THEN toolLog[1].result.structured_content
               ELSE toolLog[1].result.content))

\* A fenced summary answered a bare first decision that had its own
\* message, for a tool that returned structured content.
C8_Witness ==
    /\ Done
    /\ ReturnedResult
    /\ Len(toolLog) = 1
    /\ decision.message = JStr("m1")
    /\ outcome.result.message = JStr("m2")
    /\ outcome.result.tool_result = JObj("result")
    /\ outcome.result.raw_response # decision.raw_response
    /\ StartsWith(outcome.result.raw_response, Fence)

\* C9: a returned PlannerResult has a non-empty message and is either the
\* no-tool result (tool_name, arguments, tool_result all absent, nothing
\* invoked) or the tool result (all three present, exactly one invocation).
C9_ResultShape ==
    (Done /\ ReturnedResult)
    => (/\ Truthy(outcome.result.message)
        /\ \/ (/\ outcome.result.tool_name = JNull
               /\ outcome.result.arguments = JNull
               /\ outcome.result.tool_result = JNull
               /\ toolLog = <<>>)
           \/ (/\ outcome.result.tool_name # JNull
               /\ outcome.result.arguments # JNull
               /\ outcome.result.tool_result # JNull
               /\ Len(toolLog) = 1
               /\ toolLog[1].returned))

\* A tool result whose payload is the unstructured content was returned.
C9_Witness ==
    /\ Done
    /\ ReturnedResult
    /\ Len(toolLog) = 1
    /\ toolLog[1].result.structured_content = JNull
    /\ outcome.result.tool_result = Blocks("")

\* The latest Gateway text is the JSON object text d inside a fence with
\* the given language tag, and it was handed to _parse_decision.
ParsedFenced(tag, sep, d) ==
    /\ GotText
    /\ pc # "awaiting_decision"
    /\ LastContent = Fenced(tag, sep, d)

SameFields(x, y) ==
    /\ x.action = y.action
    /\ x.message = y.message
    /\ x.tool_name = y.tool_name
    /\ x.arguments = y.arguments

\* C10 (as claimed): for every JSON object text J and every language tag,
\* the fenced text parses to the fields J alone parses to, and raw_response
\* keeps the fenced text.
C10_FenceAnyTag ==
    \A tag \in LanguageTags, sep \in Separators,
       d \in FencedDocs \cap ObjectDocs :
        ParsedFenced(tag, sep, d)
        => (/\ parsed.err = NoError
            /\ SameFields(parsed.decision,
                          parse_decision(<<DocSym(d)>>).decision)
            /\ SameFields(parsed.decision, d)
            /\ parsed.decision.raw_response = Fenced(tag, sep, d))

\* C10 (amended): the same for a fence that carries no language tag or
\* the tag json right after the opening backticks.
C10_FenceJsonTag ==
    \A tag \in {<<>>, JsonTag}, sep \in Separators,
       d \in FencedDocs \cap ObjectDocs :
        ParsedFenced(tag, sep, d)
        => (/\ parsed.err = NoError
            /\ SameFields(parsed.decision,
                          parse_decision(<<DocSym(d)>>).decision)
            /\ SameFields(parsed.decision, d)
            /\ parsed.decision.raw_response = Fenced(tag, sep, d))

\* A call_tool decision inside a json-tagged fence was parsed and its tool
\* invoked.
C10_Witness ==
    /\ pc = "calling_tool"
    /\ \E d \in FencedDocs \cap ObjectDocs :
          /\ ParsedFenced(JsonTag, <<Ch("newline")>>, d)
          /\ SameFields(decision, d)
          /\ toolLog[1].tool_name = d.tool_name.v

--------------------------------------------------------------------------
\* The state in which every call to run starts.
FreshLocals ==
    /\ user_input = ""
    /\ requests = <<>>
    /\ replies = <<>>
    /\ parsed = NotParsed
    /\ decision = NoDecision
    /\ toolLog = <<>>
    /\ payload = JNull
    /\ outcome = Pending

ConstructedPlanner ==
    [tools |-> ToolRegistry, manifest |-> format_manifest(ToolRegistry),
     model |-> "gpt-4.1-mini", timeout |-> DefaultTimeout]

\* What a call to run on a newly constructed planner returns or raises for
\* the Gateway replies rs and the tool invocations tl of that call.
OutcomeOf(rs, tl) ==
    LET got1 == complete(rs[1])
        p1 == parse_decision(got1.content)
        st == run_decision(p1.decision, ToolRegistry)
    IN IF got1.err # NoError THEN Raised(got1.err)
       ELSE IF p1.err # NoError THEN Raised(p1.err)
       ELSE IF st.step # "invoke" THEN st.outcome
       ELSE IF tl[1].result.raised
       THEN Raised(Err("ToolError", "tool_raised", <<>>))
       ELSE IF ~Serializable(payload_of(tl[1].result))
       THEN Raised(Err("TypeError", "not_json_serializable", <<>>))
       ELSE LET got2 == complete(rs[2])
                p2 == parse_decision(got2.content)
            IN IF got2.err # NoError THEN Raised(got2.err)
               ELSE IF p2.err # NoError THEN Raised(p2.err)
               ELSE summarize_with_tool(p2.decision, p1.decision,
                                        payload_of(tl[1].result))

\* C11: run keeps no state across calls: no step changes the planner's
\* registry, manifest, model or timeout; every call, also one that failed
\* midway, leaves the state in which the next call starts as it was after
\* construction; and the outcome of every call, the first or a later one,
\* is the one its own Gateway and tool responses give on a new planner.
C11_NoStateAcrossCalls ==
    /\ [][planner' = planner]_vars
    /\ [](planner = ConstructedPlanner)
    /\ [](pc = "idle" => FreshLocals)
    /\ [](Done => outcome = OutcomeOf(replies, toolLog))

\* A second call on the same planner went through both rounds and
\* returned a tool result.
C11_Witness ==
    /\ calls = 1
    /\ Done
    /\ ReturnedResult
    /\ Len(toolLog) = 1
    /\ Len(replies) = 2

--------------------------------------------------------------------------
\* Properties of the autonomous reasoner (checked under SpecReasoner).

SolveDone == solve.pc = "done"
\* The client library or the credential is missing.
GatewayUnavailable == solve.env \in {"no_library", "no_key", "empty_key"}
\* The awaited Gateway call raised / came back with a response.
GatewayRaised == solve.reply # <<>> /\ solve.reply[1].kind = "raises"
GatewayAnswered == solve.reply # <<>> /\ solve.reply[1].kind = "response"
\* The text of the Gateway's response (None counts as the empty text).
AnsweredText ==
    IF PyTruthy(solve.reply[1].content) THEN solve.reply[1].content.v ELSE <<>>

\* C12: solve never fails because of the Gateway: when the Gateway is
\* unavailable (client library or credential missing) or the Gateway call
\* raises, solve returns the fallback reasoner's result for the same problem,
\* with source fallback.
C12_GatewayFailureFallsBack ==
    SolveDone =>
        /\ solved.kind = "result"
        /\ (GatewayUnavailable \/ GatewayRaised) =>
              /\ solved =
                    Returned(AutonomousResult(solve.problem,
                                 fallback_reasoner(solve.problem)))
              /\ solved.result.problem = solve.problem
              /\ solved.result.source = "fallback"

C12_Witness ==
    /\ SolveDone
    /\ GatewayRaised
    /\ solved.kind = "result"
    /\ solved.result.source = "fallback"
    /\ solved.result.final_answer = PyStr(<<Float(-1, 1)>>)

\* C13: every result of solve carries a source tag that is openai (the
\* Gateway) or fallback; the tag is fallback exactly when the answer was
\* computed by the local heuristic, and it is the Gateway tag exactly when the
\* Gateway answered the request.
C13_SourceTellsAnswersApart ==
    SolveDone =>
        /\ solved.kind = "result"
        /\ solved.result.source \in {"openai", "fallback"}
        /\ solved.result.source = "fallback" <=> solve.via = "fallback"
        /\ solved.result.source = "openai" <=> GatewayAnswered

\* C14: when the Gateway answers with text that does not parse as JSON, solve
\* neither fails nor falls back: reasoning_steps is the one-element list
\* holding the whole trimmed raw text, final_answer is that same text, and the
\* source is the Gateway's.
C14_ProseIsTheAnswer ==
    (SolveDone /\ GatewayAnswered /\ ~json_loads(AnsweredText).ok) =>
        solved =
            Returned([problem |-> solve.problem,
                      reasoning_steps |->
                          PyList(<<PyStr(Strip(AnsweredText, Whitespace))>>),
                      final_answer |-> PyStr(Strip(AnsweredText, Whitespace)),
                      model |-> solve.model,
                      source |-> "openai"])

C14_Witness ==
    /\ SolveDone
    /\ solve.reply = <<ChatResponse(PyStr(<<Ch("space")>> \o Prose
                                            \o <<Ch("newline")>>))>>
    /\ solved.kind = "result"
    /\ solved.result.reasoning_steps = PyList(<<PyStr(Prose)>>)
    /\ solved.result.final_answer = PyStr(Prose)
    /\ solved.result.source = "openai"

\* The fallback reasoner computed the result of the call that has ended.
FallbackDone == SolveDone /\ solve.via = "fallback"
\* The numeric literals of the problem, in text order.
Literals == findall(solve.problem, 1)
\* The table order the properties speak of.
KeywordOrder ==
    <<<<"a", "d", "d">>, <<"p", "l", "u", "s">>, <<"s", "u", "m">>,
      <<"s", "u", "b", "t", "r", "a", "c", "t">>, <<"m", "i", "n", "u", "s">>,
      <<"d", "i", "f", "f", "e", "r", "e", "n", "c", "e">>,
      <<"m", "u", "l", "t", "i", "p", "l", "y">>, <<"t", "i", "m", "e", "s">>,
      <<"p", "r", "o", "d", "u", "c", "t">>, <<"d", "i", "v", "i", "d", "e">>,
      <<"q", "u", "o", "t", "i", "e", "n", "t">>>>
\* The positions in that order of the keywords found in the lower-cased text.
Occurring ==
    {i \in DOMAIN KeywordOrder :
        Contains(lower(solve.problem), Chars(KeywordOrder[i]))}
FirstOccurring == CHOOSE i \in Occurring : \A j \in Occurring : i <= j
\* First operand combined with the second by the operation of position i.
Combined(i, a, b) ==
    CASE i \in 1..3 -> Float(a.num * b.den + b.num * a.den, a.den * b.den)
      [] i \in 4..6 -> Float(a.num * b.den - b.num * a.den, a.den * b.den)
      [] i \in 7..9 -> Float(a.num * b.num, a.den * b.den)
      [] i \in 10..11 -> IF b.num = 0 THEN Inf
                        ELSE Float(a.num * b.den, a.den * b.num)
Determined == Len(Literals) >= 2 /\ Occurring # {}

\* C15: with at least two numeric literals and a keyword in the lower-cased
\* text, the fallback's answer is the first two literals combined by the
\* operation of the first occurring keyword in the table order add, plus, sum,
\* subtract, minus, difference, multiply, times, product, divide, quotient;
\* otherwise the answer is "Unable to determine answer.".
C15_FallbackComputation ==
    FallbackDone =>
        /\ solved.kind = "result"
        /\ solved.result.final_answer =
              IF Determined
              THEN PyStr(<<Combined(FirstOccurring, float(Literals[1]),
                                    float(Literals[2]))>>)
              ELSE PyStr(<<Lit("Unable to determine answer.")>>)

\* "triple 4 subtract 5" yields 4 minus 5.
C15_Witness ==
    /\ FallbackDone
    /\ solve.problem =
          Sentence(<<"t", "r", "i", "p", "l", "e">>, <<"4">>,
                   <<"s", "u", "b", "t", "r", "a", "c", "t">>, <<"5">>)
    /\ solved.kind = "result"
    /\ solved.result.final_answer = PyStr(<<Float(-1, 1)>>)

\* C16: the fallback reasoner never raises; when the keyword it applies is
\* divide or quotient and the second number is zero, the result is positive
\* infinity whatever the first number is.
C16_FallbackNeverRaises ==
    FallbackDone =>
        /\ solved.kind = "result"
        /\ (Determined /\ FirstOccurring \in 10..11
              /\ float(Literals[2]).num = 0) =>
              solved.result.final_answer = PyStr(<<Inf>>)

C16_Witness ==
    /\ FallbackDone
    /\ solve.problem =
          Sentence(<<"q", "u", "o", "t", "i", "e", "n", "t">>,
                   <<"-", "1", ".", "5">>, <<>>, <<"0">>)
    /\ solved.kind = "result"
    /\ solved.result.final_answer = PyStr(<<Inf>>)

--------------------------------------------------------------------------
\* Properties of the arithmetic servers (checked under SpecServers).

ToolCalled == tool_call # NoCall
DataCalled == ToolCalled /\ tool_call.server = "math-data-provider"
PromptCalled == ToolCalled /\ tool_call.server = "math-prompt-helper"
CapabilityCalled == ToolCalled /\ tool_call.server = "math-capability-registry"
FirstArgument == tool_call.arguments[1]
SecondArgument == tool_call.arguments[2]
Quotient(a, b) == Float(a.num * b.den, a.den * b.num)
\* The text holds the symbol.
Holds(text, sym) == \E i \in DOMAIN text : text[i] = sym

\* C17: in the data-providing and the prompt-returning variant the divide tool
\* returns result a / b when b is not zero; when b is zero it fails with
\* ValueError (InvalidArgument) and produces no result record.
C17_Divide ==
    ((DataCalled /\ tool_call.tool = "math_divide")
       \/ (PromptCalled /\ tool_call.tool = "math_divide_with_prompt")) =>
        IF SecondArgument.num # 0
        THEN /\ tool_response.kind = "result"
             /\ tool_response.result.result =
                   Quotient(FirstArgument, SecondArgument)
        ELSE /\ tool_response.kind = "error"
             /\ tool_response.error.type = "ValueError"
             /\ tool_response.result = NoResult

C17_Witness ==
    /\ PromptCalled
    /\ tool_call.tool = "math_divide_with_prompt"
    /\ tool_call.arguments = <<Float(12, 1), Float(0, 1)>>
    /\ tool_response.kind = "error"
    /\ tool_response.error.type = "ValueError"

\* What the property expects of each data-providing tool.
ExpectedRecord(tool, a, b) ==
    CASE tool = "math_add" ->
            [operation |-> "addition",
             inputs |-> <<Input("augend", a), Input("addend", b)>>,
             result |-> Float(a.num * b.den + b.num * a.den, a.den * b.den)]
      [] tool = "math_subtract" ->
            [operation |-> "subtraction",
             inputs |-> <<Input("minuend", a), Input("subtrahend", b)>>,
             result |-> Float(a.num * b.den - b.num * a.den, a.den * b.den)]
      [] tool = "math_multiply" ->
            [operation |-> "multiplication",
             inputs |-> <<Input("multiplicand", a), Input("multiplier", b)>>,
             result |-> Float(a.num * b.num, a.den * b.den)]
      [] tool = "math_divide" ->
            [operation |-> "division",
             inputs |-> <<Input("dividend", a), Input("divisor", b)>>,
             result |-> Quotient(a, b)]

\* C18: each data-providing tool (math_divide with a non-zero divisor) returns
\* {operation, inputs, result}: the name of its operation, each declared
\* argument name mapped to the value passed, and the first operand combined
\* with the second by the operation.
C18_DataRecord ==
    (DataCalled /\ (tool_call.tool = "math_divide" => SecondArgument.num # 0))
      =>
        /\ tool_response.kind = "result"
        /\ DOMAIN tool_response.result = {"operation", "inputs", "result"}
        /\ tool_response.result.operation # ""
        /\ tool_response.result =
              ExpectedRecord(tool_call.tool, FirstArgument, SecondArgument)

C18_Witness ==
    /\ DataCalled
    /\ tool_call.tool = "math_subtract"
    /\ tool_call.arguments = <<Float(2, 1), Float(3, 1)>>
    /\ tool_response.kind = "result"
    /\ tool_response.result.operation = "subtraction"
    /\ tool_response.result.result = Float(-1, 1)

\* C19: each prompt-returning tool returns {operation, inputs, result,
\* next_prompt}; next_prompt is the template applied to the operation, inputs
\* and result of the same call, which are fixed by the tool and its arguments,
\* and it holds the operation name, the input mapping and the text of the
\* result.
C19_NextPrompt ==
    (PromptCalled /\ tool_response.kind = "result") =>
        LET r == tool_response.result
            tool == PromptTools[tool_call.tool]
        IN /\ DOMAIN r = {"operation", "inputs", "result", "next_prompt"}
           /\ r.operation = tool.operation
           /\ r.inputs = <<Input(tool.first, FirstArgument),
                           Input(tool.second, SecondArgument)>>
           /\ r.result = prompt_compute(r.operation, r.inputs).value
           /\ r.next_prompt = build_prompt(r.operation, r.inputs, r.result)
           /\ Holds(r.next_prompt, Lit(r.operation))
           /\ Holds(r.next_prompt, Repr(r.inputs))
           /\ Holds(r.next_prompt, r.result)

C19_Witness ==
    /\ PromptCalled
    /\ tool_call.tool = "math_divide_with_prompt"
    /\ tool_call.arguments = <<Float(12, 1), Float(3, 1)>>
    /\ tool_response.kind = "result"
    /\ tool_response.result.result = Float(4, 1)
    /\ Holds(tool_response.result.next_prompt, Float(4, 1))

\* C20: the capability-only variant advertises exactly math_add,
\* math_subtract, math_multiply and math_divide; invoking any of them fails
\* with DisabledError (NotExecutable) whatever the arguments, never returning
\* a result, and the message names math-data-provider and the invoked tool.
C20_CapabilityOnly ==
    /\ DOMAIN CapabilityTools =
          {"math_add", "math_subtract", "math_multiply", "math_divide"}
    /\ CapabilityCalled =>
          /\ tool_response.kind = "error"
          /\ tool_response.result = NoResult
          /\ tool_response.error.type = "DisabledError"
          /\ Holds(tool_response.error.text, Lit("math-data-provider"))
          /\ Holds(tool_response.error.text, Lit(tool_call.tool))

C20_Witness ==
    /\ CapabilityCalled
    /\ tool_call.tool = "math_divide"
    /\ tool_call.arguments = <<Float(12, 1), Float(0, 1)>>
    /\ tool_response.kind = "error"
    /\ tool_response.error.type = "DisabledError"

--------------------------------------------------------------------------
\* Properties of the blueprint index (checked under SpecBlueprints).

Imported == blueprints # <<>>
Registrations == AliasPairs(blueprints, 1)
\* The lower-cased key is the name of blueprint i.
NamedBy(key, i) == key_lower(blueprints[i].name) = key_lower(key)
\* The lower-cased key is the alias of registration n.
AliasedBy(key, n) == key_lower(Registrations[n].alias) = key_lower(key)
\* The blueprint that registered the key first: the one it names, else the
\* one of the first registration of it as an alias.
FirstRegistrant(key) ==
    IF \E i \in DOMAIN blueprints : NamedBy(key, i)
    THEN blueprints[CHOOSE i \in DOMAIN blueprints : NamedBy(key, i)]
    ELSE LET n == CHOOSE n \in DOMAIN Registrations :
                      /\ AliasedBy(key, n)
                      /\ \A m \in DOMAIN Registrations :
                            AliasedBy(key, m) => n <= m
         IN Registrations[n].blueprint
Known(key) ==
    \/ \E i \in DOMAIN blueprints : NamedBy(key, i)
    \/ \E n \in DOMAIN Registrations : AliasedBy(key, n)

\* C21: get_blueprint resolves, whatever the casing, every blueprint's name
\* and every alias to that blueprint; a key registered earlier (a name, or an
\* alias of an earlier blueprint) is never overwritten by a later alias; an
\* unknown key fails with KeyError; lookups leave the index unchanged.
C21_BlueprintLookup ==
    /\ [](Imported =>
            /\ \A i \in DOMAIN blueprints :
                  index[key_lower(blueprints[i].name)] = blueprints[i]
            /\ \A n \in DOMAIN Registrations :
                  index[key_lower(Registrations[n].alias)] =
                      FirstRegistrant(Registrations[n].alias)
            /\ blueprints = SERVER_BLUEPRINTS =>
                  \A n \in DOMAIN Registrations :
                      index[key_lower(Registrations[n].alias)] =
                          Registrations[n].blueprint)
    /\ [](lookup.called =>
            IF Known(lookup.key)
            THEN lookup.outcome = Returned(FirstRegistrant(lookup.key))
            ELSE /\ lookup.outcome.kind = "error"
                 /\ lookup.outcome.error.type = "KeyError")
    /\ [][Imported => index' = index]_vars

C21_Witness ==
    /\ lookup.called
    /\ blueprints =
          WithAlias(SERVER_BLUEPRINTS, 3, Key("data", "upper"))
    /\ lookup.key = Key("data", "mixed")
    /\ lookup.outcome = Returned(SERVER_BLUEPRINTS[2])

--------------------------------------------------------------------------
\* Properties of the chat shell (checked under SpecShell).

Started == shell.pc # "not_started"
\* The environment holds no credential (no variable, or an empty one).
NoCredential == shell.env \in {"no_key", "empty_key"}
\* --server names a registered blueprint.
Resolves(key) == key_lower(key) \in DOMAIN BLUEPRINT_INDEX(SERVER_BLUEPRINTS)
\* _async_main reached its loop.
InSession == shell.handler # ""
ManualHandlers ==
    {"CapabilityHandler", "DataHandler", "PromptHandler", "AutonomousHandler"}
\* The line read last, as the loop compares it with the commands.
Lowered == line_lower(line_strip(shell.line))
EmptyLine == line_strip(shell.line).words = <<>>

\* C22: with no credential in the environment is_planner_available is
\* false, the start-up for a registered server does not fail and builds no
\* planner (planner None, a manual handler), and constructing a planner
\* directly fails with PlannerError.
C22_NoCredentialIsGraceful ==
    (Started /\ NoCredential) =>
        /\ ~is_planner_available(shell.env)
        /\ Resolves(shell.server) =>
              /\ InSession
              /\ shell.planner = "None"
              /\ shell.handler \in ManualHandlers
        /\ shell.direct # NotConstructed =>
              /\ shell.direct.made = "error"
              /\ shell.direct.error.type = "PlannerError"

C22_Witness ==
    /\ shell.env = "no_key"
    /\ shell.flag = "True"
    /\ shell.server = Key("data", "mixed")
    /\ shell.handler = "DataHandler"
    /\ shell.direct.made = "error"
    /\ shell.handled.kind = "returned"
    /\ shell.pc = "reading"

\* C23 (as claimed): a line that, trimmed and lower-cased, is one of exit,
\* quit, help, tools, manifest, or is empty, is never passed to the handler;
\* every other line is passed exactly once; after an exit command nothing
\* more is read or handled.
ClaimedExit == {Command("exit"), Command("quit")}
ClaimedReserved ==
    ClaimedExit \cup {Command("help"), Command("tools"), Command("manifest")}
NothingAfterExit ==
    shell.pc = "exited" =>
        /\ shell'.pc = "exited"
        /\ shell'.line = shell.line
        /\ shell'.passed = shell.passed
        /\ shell'.handled = shell.handled
C23_ReservedAsClaimed ==
    /\ [](InSession =>
            /\ shell.passed =
                  IF EmptyLine \/ Lowered \in ClaimedReserved THEN 0 ELSE 1
            /\ Lowered \in ClaimedExit => shell.pc = "exited")
    /\ [][NothingAfterExit]_vars

\* C23 (amended): the reserved commands are exit, quit, :q, help, ?, :help,
\* tools and manifest; such a line and an empty line are never passed to the
\* handler, every other line is passed exactly once, and after exit, quit
\* or :q nothing more is read or handled.
C23_ReservedCommands ==
    /\ [](InSession =>
            /\ shell.passed =
                  IF EmptyLine \/ Lowered \in EXIT_COMMANDS
                                \/ Lowered \in HELP_COMMANDS
                                \/ Lowered \in MANIFEST_COMMANDS
                  THEN 0 ELSE 1
            /\ shell.pc = "handling" => shell.passed = 1
            /\ Lowered \in EXIT_COMMANDS => shell.pc = "exited")
    /\ [][NothingAfterExit]_vars

C23_Witness ==
    /\ shell.line = Line(<<"exit", "now">>, "mixed", TRUE)
    /\ shell.passed = 1
    /\ shell.handled.kind = "returned"
    /\ shell.pc = "exited"

\* C29: a failure while handling one input ends only that turn: it is
\* reported and the loop reads on; the loop is left only by an exit command
\* or by end of input, never by an exception of the handler.
C29_FailedTurnEndsOnlyThatTurn ==
    InSession =>
        /\ shell.handled.kind # "raised"
        /\ shell.pc # "crashed"

--------------------------------------------------------------------------
\* Termination of run (checked under SpecLive).

Running == pc \in {"awaiting_decision", "calling_tool", "awaiting_summary"}
\* The round that ended last was abandoned by the timer.
TimedOut == replies # <<>> /\ replies[Len(replies)] = TimeoutReply

--------------------------------------------------------------------------
\* Termination of solve_math_problem (checked under SpecReasonerLive).

AwaitingGateway == solve.pc = "awaiting_gateway"
Solved == solve.pc = "done"

\* C25: every call to solve_math_problem returns a result even when the
\* Gateway never answers: the Gateway call ends by a timeout and solve falls
\* back to the heuristic.
C25_SolveReturns == AwaitingGateway ~> Solved

--------------------------------------------------------------------------
\* The order of the events of one run (checked under Spec).

\* START, AWAITING_DECISION, CALLING_TOOL, AWAITING_SUMMARY, DONE; the
\* RESPONDING of either branch is the end of the step that reaches DONE.
Rank(state) ==
    CASE state = "idle" -> 0
      [] state = "awaiting_decision" -> 1
      [] state = "calling_tool" -> 2
      [] state = "awaiting_summary" -> 3
      [] state = "done" -> 4
Successors(state) ==
    CASE state = "idle" -> {"awaiting_decision"}
      [] state = "awaiting_decision" -> {"calling_tool", "done"}
      [] state = "calling_tool" -> {"awaiting_summary", "done"}
      [] state = "awaiting_summary" -> {"done"}
      [] state = "done" -> {"idle"}
\* A Gateway request of the turn has no reply yet.
RequestPending == Len(requests) > Len(replies)
ToolInvoked == toolLog # <<>>
ToolRunning == ToolInvoked /\ ~toolLog[1].returned
ToolSucceeded ==
    ToolInvoked /\ toolLog[1].returned /\ ~toolLog[1].result.raised
\* The first Gateway response was received and is a decision to call a
\* registered tool.
FirstResponseValidated ==
    /\ Len(replies) >= 1
    /\ complete(replies[1]).err = NoError
    /\ parse_decision(complete(replies[1]).content).err = NoError
    /\ run_decision(parse_decision(complete(replies[1]).content).decision,
                    planner.tools).step = "invoke"

\* C26: within one run the states follow START, AWAITING_DECISION, then
\* DONE or CALLING_TOOL, then DONE or AWAITING_SUMMARY, then DONE, each at most
\* once; a tool is invoked only after the first Gateway response was received
\* and validated and never while a request is pending; the summary request
\* is sent only after the tool returned without error, and a tool that fails
\* ends the turn with no summary round.
C26_RunStateMachine ==
    /\ [](ToolInvoked => FirstResponseValidated)
    /\ [](ToolRunning => ~RequestPending /\ pc = "calling_tool")
    /\ [](RequestPending => pc \in {"awaiting_decision", "awaiting_summary"})
    /\ [](Len(requests) >= 2 => Len(requests) = 2 /\ ToolSucceeded)
    /\ []((ToolInvoked /\ toolLog[1].returned /\ toolLog[1].result.raised) =>
            Done /\ Len(requests) = 1 /\ Failed)
    /\ [][/\ pc' # pc => pc' \in Successors(pc)
          /\ pc # "done" => Rank(pc') > Rank(pc)
          /\ requests' # requests => pc' # pc]_vars

C26_Witness ==
    /\ Done
    /\ Len(requests) = 2
    /\ Len(replies) = 2
    /\ ToolSucceeded
    /\ outcome.kind = "result"

--------------------------------------------------------------------------
\* Interleaved turns (checked under SpecConcurrent).

\* The decision the turn's own first reply holds.
OwnDecision(t) ==
    parse_decision(complete(turns[t].replies[1]).content).decision
TurnInvoked(t) == turns[t].toolLog # <<>>

\* C27: interleaved calls to run do not interfere: each invokes at most one
\* tool, the tool and arguments it invokes and reports are those of its own
\* first decision, its summary request carries its own user input, decision
\* and payload, its outcome is the one its own replies and tool result
\* determine, and the planner's registry and manifest never change.
C27_TurnsDoNotInterfere ==
    /\ [](\A t \in Turns :
            /\ Len(turns[t].toolLog) <= 1
            /\ TurnInvoked(t) =>
                  /\ turns[t].toolLog[1].tool_name = OwnDecision(t).tool_name.v
                  /\ turns[t].toolLog[1].arguments = OwnDecision(t).arguments
            /\ Len(turns[t].requests) = 2 =>
                  turns[t].requests[2] =
                      summarize_request(planner.manifest, turns[t].user_input,
                          OwnDecision(t).tool_name, OwnDecision(t).arguments,
                          payload_of(turns[t].toolLog[1].result))
            /\ turns[t].pc = "done" =>
                  turns[t].outcome =
                      OutcomeOf(turns[t].replies, turns[t].toolLog))
    /\ [][planner' = planner]_vars
    /\ [][\A t \in Turns :
            turns'[t] # turns[t] => turns'[OtherTurn(t)] = turns[OtherTurn(t)]]_vars

C27_Witness ==
    /\ turns["t1"].pc = "done"
    /\ turns["t2"].pc = "done"
    /\ turns["t1"].outcome.kind = "result"
    /\ turns["t2"].outcome.kind = "result"
    /\ turns["t1"].toolLog # <<>>
    /\ turns["t2"].toolLog # <<>>
    /\ turns["t1"].toolLog[1].tool_name = "math_add"
    /\ turns["t2"].toolLog[1].tool_name = "math_divide"
    /\ turns["t1"].outcome.result.tool_name = JStr("math_add")
    /\ turns["t2"].outcome.result.tool_name = JStr("math_divide")
    /\ turns["t1"].user_input # turns["t2"].user_input

--------------------------------------------------------------------------
\* Other violations of the decision contract (checked under Spec).

\* What json.loads made of the first response.
FirstLoaded == json_loads(sanitize(complete(replies[1]).content))
\* The first response is valid JSON, yet not an object, or an object whose
\* action is missing or is neither respond nor call_tool.
ContractViolated ==
    /\ Len(replies) >= 1
    /\ complete(replies[1]).err = NoError
    /\ FirstLoaded.ok
    /\ \/ FirstLoaded.data.kind # "object"
       \/ FirstLoaded.data.action \notin {JStr("respond"), JStr("call_tool")}

\* C28: a first response that is valid JSON but not an object, or an object
\* whose action is missing or unknown, makes run fail with PlannerError, with
\* no tool invoked, no second request and no retry.
C28_ContractViolationIsPlannerError ==
    ContractViolated =>
        /\ Done
        /\ FailedWith("PlannerError")
        /\ toolLog = <<>>
        /\ Len(requests) = 1
        /\ Len(replies) = 1

--------------------------------------------------------------------------
\* The two executing variants compared (checked under SpecServers).

\* The operation and the inputs dict of the call, which the tools of both
\* variants build alike.
CalledTool ==
    IF DataCalled THEN DataTools[tool_call.tool]
    ELSE PromptTools[tool_call.tool]
CalledInputs ==
    <<Input(CalledTool.first, FirstArgument),
      Input(CalledTool.second, SecondArgument)>>
ZeroDivisor == CalledTool.operation = "division" /\ SecondArgument.num = 0
\* The prompt-returning response is the data-providing one plus next_prompt.
SameFunction(data, prompted) ==
    /\ (prompted.kind = "error") <=> (data.kind = "error")
    /\ (data.kind = "error") <=> ZeroDivisor
    /\ data.kind = "error" => prompted.error = data.error
    /\ data.kind = "result" =>
          /\ prompted.kind = "result"
          /\ prompted.result.operation = data.result.operation
          /\ prompted.result.inputs = data.result.inputs
          /\ prompted.result.result = data.result.result
          /\ DOMAIN prompted.result = DOMAIN data.result \cup {"next_prompt"}

\* C30: for each of the four operations and every argument pair the
\* prompt-returning tool fails exactly when the data-providing tool fails
\* (zero divisor), and otherwise its operation, inputs and result equal those
\* of the data-providing record, next_prompt being the only addition.
C30_VariantsComputeTheSame ==
    /\ PromptCalled =>
          SameFunction(response(CalledTool.operation, CalledInputs),
                       tool_response)
    /\ DataCalled =>
          SameFunction(tool_response,
                       structure(CalledTool.operation, CalledInputs))

C30_Witness ==
    /\ PromptCalled
    /\ tool_call.tool = "math_divide_with_prompt"
    /\ tool_call.arguments = <<Float(0, 1), Float(-5, 4)>>
    /\ tool_response.kind = "result"
    /\ tool_response.result.result = Float(0, 1)
    /\ response("division", CalledInputs).result.result = Float(0, 1)

====
